---- MODULE Spec2Model ----
(***************************************************************************)
(* A model of deng-toolkit: the per-author annotation store of the catalog *)
(* MCP server (servers/catalog_mcp/annotations.py), the catalog refresh    *)
(* batch (scripts/catalog_refresh.py), the procedure-analysis batch        *)
(* (scripts/analyze_procedures.py) and the SQL pattern extractor           *)
(* (scripts/adapters/procedure_parser.py).                                 *)
(*                                                                         *)
(* Strings whose characters the code inspects (annotation targets, user    *)
(* names) are sequences of one-character strings.  A content string is a   *)
(* record [text, len]: the code reads only its identity and its length.    *)
(***************************************************************************)
EXTENDS Integers, Sequences, FiniteSets, TLC

\* ------------------------------------------------------------------ bounds
\* add_annotation calls that pass validation, per behaviour
MaxCalls == 2

\* ------------------------------------------------- constants of the program
VALID_ANNOTATION_TYPES == {"note", "quality_flag", "deprecation"}
QUALITY_FLAG_VALUES == {"TRUSTED", "STALE", "INCOMPLETE", "EXPERIMENTAL"}
MAX_CONTENT_LENGTH == 10000
\* _sanitize_username keeps the first 64 characters
MAX_USERNAME_LENGTH == 64

VARIABLES
    annFiles,     \* annotations/<name>.json: file name -> file content
    annDir,       \* whether the annotations directory exists
    tmpFiles,     \* the *.tmp files of the annotations directory
    nextTmp,      \* names handed out by mkstemp
    nextId,       \* ids handed out by uuid4
    pc,           \* per process: where its add_annotation call stands
    call,         \* per process: the locals of its add_annotation call
    outcome,      \* per process: how its last add_annotation call ended
    readResult,   \* what the get_annotations call just made returned
    saved,        \* the annotations successful add_annotation calls returned
    calls         \* add_annotation calls that passed validation so far

annVars == <<annFiles, annDir, tmpFiles, nextTmp, nextId, pc, call, outcome,
             readResult, saved, calls>>

\* The variables of a catalog_refresh or analyze_procedures run.
VARIABLES
    tool,           \* which script runs: catalog_refresh or analyze_procedures
    depth,          \* --depth of the run: "metadata" or "profile"
    environ,        \* the targets whose credential variables are all set
    targetsToScan,  \* main's targets_to_scan (targets_to_analyze), in order
    catalog,        \* metadata.parquet
    lastScan,       \* last_scan.json: target -> row_count
    rpc,            \* where the run stands
    targetIdx,      \* position of main's loop in targetsToScan
    dbIdx,          \* position of the database loop of the target
    allMetadata,    \* all_metadata (all_procedures, all_stats, ...) of the target
    allData,        \* main's all_data (all_procedures, all_stats)
    result,         \* write_global_catalog's result while it is being written
    scanned,        \* target -> the frame scan_target returned to main
    printed,        \* what the run printed so far
    outputs,        \* the rows main wrote to its output files at the end
    exitStatus,     \* the run's exit status, -1 while it runs
    observed        \* what the last search_catalog call found at metadata.parquet

refreshVars == <<tool, depth, environ, targetsToScan, catalog, lastScan, rpc,
                 targetIdx, dbIdx, allMetadata, allData, result, scanned,
                 printed, outputs, exitStatus, observed>>

\* The variables of a ProcedureParser.parse call.
VARIABLES
    available,    \* whether sqlglot could be imported
    sql,          \* the text handed to parse, as sqlglot reads it
    ppc,          \* where the call stands
    stmtIdx,      \* position of parse's loop in the statements
    parsed,       \* the ParsedProcedure being filled
    ran           \* the phases that ran, per statement

parseVars == <<available, sql, ppc, stmtIdx, parsed, ran>>

\* The variables of a DomainClassifier or SemanticRoleClassifier.
VARIABLES
    classifier,     \* which classifier: "domain" or "role"
    config,         \* config["domains"] or config["semantic_roles"] as declared
    selfRules,      \* self.domains or self.roles
    cpc,            \* "new" before __init__ ran, "ready" after it
    args,           \* the arguments of the last classify call
    classified      \* what the last classify call returned

classifyVars == <<classifier, config, selfRules, cpc, args, classified>>

\* The variables of a search_catalog call.
VARIABLES
    searchDf,       \* the rows of the catalog that is searched
    searchCall,     \* the arguments of the last search_catalog call
    searchOut       \* the rows it returned, in order, with their relevance

searchVars == <<searchDf, searchCall, searchOut>>

\* The variables of the ontology builder.
VARIABLES
    tableCols,      \* the catalog rows of the table an entity is built from
    entity          \* the entity node built from them

ontologyVars == <<tableCols, entity>>

\* The variables of apply_review_feedback.
VARIABLES
    today,          \* the date datetime.now() gives
    reviewFiles,    \* the files of REVIEWS_DIR, by the date in their name
    ontologyDoc,    \* ontology.jsonld
    analysisDoc,    \* procedure_analysis.jsonld
    applications    \* how many times the script has run

reviewVars == <<today, reviewFiles, ontologyDoc, analysisDoc, applications>>

\* The variables of get_catalog_status.
VARIABLES
    now,            \* the time datetime.now() gives
    statusDir,      \* the catalog directory: metadata.parquet and last_scan.json
    statusOut       \* what get_catalog_status returned

statusVars == <<now, statusDir, statusOut>>

\* The variables of two catalog_refresh runs at work on one catalog.
VARIABLES
    sharedCatalog,  \* metadata.parquet
    sharedScan,     \* last_scan.json: target -> row_count
    wpc,            \* per run (named by its target): where it stands
    wresult,        \* per run: the result write_global_catalog built
    wscan           \* per run: the scan_info update_scan_metadata loaded

writersVars == <<sharedCatalog, sharedScan, wpc, wresult, wscan>>

\* The variables of a filter or metric extraction of the procedure parser.
VARIABLES
    extraction      \* the expression handed to the extractor and what it gave

extractVars == <<extraction>>

\* The variables of one pattern search of a classifier.
VARIABLES
    matching        \* the classifier, the pattern, the name and whether it matched

matchVars == <<matching>>

\* The variables of one run of OntologyBuilder.build.
VARIABLES
    selfCatalog,    \* the catalog the builder was given, row by row
    doc             \* the entities and the review queue it built

buildVars == <<selfCatalog, doc>>

\* The variables of one call of _compute_global_patterns.
VARIABLES
    globalPatterns  \* the joins handed over and the mostJoinedTables list

globalVars == <<globalPatterns>>

otherThanAnnVars ==
    <<refreshVars, parseVars, classifyVars, searchVars, ontologyVars,
      reviewVars, statusVars, writersVars, extractVars, matchVars,
      buildVars, globalVars>>
otherThanRefreshVars ==
    <<annVars, parseVars, classifyVars, searchVars, ontologyVars,
      reviewVars, statusVars, writersVars, extractVars, matchVars,
      buildVars, globalVars>>
otherThanParseVars ==
    <<annVars, refreshVars, classifyVars, searchVars, ontologyVars,
      reviewVars, statusVars, writersVars, extractVars, matchVars,
      buildVars, globalVars>>
otherThanClassifyVars ==
    <<annVars, refreshVars, parseVars, searchVars, ontologyVars,
      reviewVars, statusVars, writersVars, extractVars, matchVars,
      buildVars, globalVars>>
otherThanSearchVars ==
    <<annVars, refreshVars, parseVars, classifyVars, ontologyVars,
      reviewVars, statusVars, writersVars, extractVars, matchVars,
      buildVars, globalVars>>
otherThanOntologyVars ==
    <<annVars, refreshVars, parseVars, classifyVars, searchVars,
      reviewVars, statusVars, writersVars, extractVars, matchVars,
      buildVars, globalVars>>
otherThanReviewVars ==
    <<annVars, refreshVars, parseVars, classifyVars, searchVars,
      ontologyVars, statusVars, writersVars, extractVars, matchVars,
      buildVars, globalVars>>
otherThanStatusVars ==
    <<annVars, refreshVars, parseVars, classifyVars, searchVars,
      ontologyVars, reviewVars, writersVars, extractVars, matchVars,
      buildVars, globalVars>>
otherThanWritersVars ==
    <<annVars, refreshVars, parseVars, classifyVars, searchVars,
      ontologyVars, reviewVars, statusVars, extractVars, matchVars,
      buildVars, globalVars>>
otherThanExtractVars ==
    <<annVars, refreshVars, parseVars, classifyVars, searchVars,
      ontologyVars, reviewVars, statusVars, writersVars, matchVars,
      buildVars, globalVars>>
otherThanMatchVars ==
    <<annVars, refreshVars, parseVars, classifyVars, searchVars,
      ontologyVars, reviewVars, statusVars, writersVars, extractVars,
      buildVars, globalVars>>
otherThanBuildVars ==
    <<annVars, refreshVars, parseVars, classifyVars, searchVars,
      ontologyVars, reviewVars, statusVars, writersVars, extractVars,
      matchVars, globalVars>>
otherThanGlobalVars ==
    <<annVars, refreshVars, parseVars, classifyVars, searchVars,
      ontologyVars, reviewVars, statusVars, writersVars, extractVars,
      matchVars, buildVars>>

\* ------------------------------------------------------------ small helpers
Min(a, b) == IF a < b THEN a ELSE b

RECURSIVE CountChar(_, _)
\* str.count(ch) for a one-character ch
CountChar(s, ch) ==
    IF s = <<>> THEN 0
    ELSE (IF Head(s) = ch THEN 1 ELSE 0) + CountChar(Tail(s), ch)


\* ----------------------------------------------------------------- strings
AlnumChars == {"a", "b", "c", "O", "d", "o", "1"}
IsAlnum(ch) == ch \in AlnumChars

NoValue == <<"<unset>">>
Anonymous == <<"a", "n", "o", "n", "y", "m", "o", "u", "s">>

RECURSIVE LStrip(_)
LStrip(s) == IF s # <<>> /\ Head(s) = " " THEN LStrip(Tail(s)) ELSE s

RECURSIVE RStrip(_)
RStrip(s) ==
    IF s # <<>> /\ s[Len(s)] = " " THEN RStrip(SubSeq(s, 1, Len(s) - 1)) ELSE s

\* str.strip()
Strip(s) == RStrip(LStrip(s))

\* _sanitize_username
SanitizeUsername(name) ==
    LET mapped == [i \in 1..Len(name) |->
                     IF IsAlnum(name[i]) \/ name[i] \in {"-", "_"}
                     THEN name[i] ELSE "_"]
        cut == SubSeq(mapped, 1, Min(Len(mapped), MAX_USERNAME_LENGTH))
    IN  IF cut = <<>> THEN Anonymous ELSE cut

\* get_username: DENG_USERNAME, then git config user.name, then USER.
\* env.git is NoValue when git fails or is absent.
GetUsername(env) ==
    IF env.deng # NoValue /\ env.deng # <<>>
    THEN SanitizeUsername(env.deng)
    ELSE IF env.git # NoValue /\ Strip(env.git) # <<>>
    THEN SanitizeUsername(Strip(env.git))
    ELSE SanitizeUsername(IF env.user = NoValue THEN Anonymous ELSE env.user)

\* The environments a caller may run in.
Envs ==
    { [deng |-> <<"a", "/", "b">>, git |-> NoValue, user |-> <<"c">>],
      [deng |-> <<>>, git |-> <<" ", "a", "_", "b", " ">>, user |-> <<"c">>],
      [deng |-> NoValue, git |-> <<" ">>, user |-> <<"c">>] }

FileAB == <<"a", "_", "b">>
FileC == <<"c">>
\* the file of an author who only writes elsewhere
FileD == <<"d">>
FileNames == {GetUsername(e) : e \in Envs}

\* ------------------------------------------------------- annotation files
\* A file of the annotations directory is missing, or holds
\*   "json"     a document json.dumps wrote: tables is its "tables" object,
\*              an insertion-ordered sequence of [target, annotations]
\*   "text"     text that is not JSON ("not valid json{{{")
\*   "partial"  a proper prefix of a document (a write cut short): not JSON
\*   "bytes"    bytes that do not decode as UTF-8
\*   "jsonlist" a JSON value that is not an object ("[]")
\*   "empty"    nothing yet (a temporary file mkstemp just created)
Missing == [kind |-> "missing", tables |-> <<>>]
TextFile == [kind |-> "text", tables |-> <<>>]
BytesFile == [kind |-> "bytes", tables |-> <<>>]
JsonListFile == [kind |-> "jsonlist", tables |-> <<>>]
EmptyFile == [kind |-> "empty", tables |-> <<>>]
JsonFile(tables) == [kind |-> "json", tables |-> tables]
PartialFile(tables) == [kind |-> "partial", tables |-> tables]

\* The value json.loads returns, or the exception that leaves _load_json_file.
EmptyStructure == [raised |-> "none", shape |-> "dict", tables |-> <<>>]

\* _load_json_file: a missing file and a JSONDecodeError give the empty
\* structure; read_text's UnicodeDecodeError is a ValueError that is neither
\* a JSONDecodeError nor an OSError, so it leaves the function.
LoadJsonFile(file) ==
    CASE file.kind = "missing" -> EmptyStructure
      [] file.kind = "json" ->
            [raised |-> "none", shape |-> "dict", tables |-> file.tables]
      [] file.kind = "jsonlist" ->
            [raised |-> "none", shape |-> "list", tables |-> <<>>]
      [] file.kind = "bytes" ->
            [raised |-> "UnicodeDecodeError", shape |-> "dict", tables |-> <<>>]
      [] OTHER -> EmptyStructure

\* ------------------------------------------------ ordered dict of tables
\* position of key target in the ordered dict, 0 when absent
KeyIndex(tables, target) ==
    IF \E i \in 1..Len(tables) : tables[i].target = target
    THEN CHOOSE i \in 1..Len(tables) : tables[i].target = target
    ELSE 0

\* if target not in tables: tables[target] = {"annotations": []}
SetDefault(tables, target) ==
    IF KeyIndex(tables, target) # 0 THEN tables
    ELSE Append(tables, [target |-> target, annotations |-> <<>>])

\* tables[target]["annotations"].append(annotation), the key present
AppendAnnotation(tables, target, annotation) ==
    LET i == KeyIndex(tables, target)
    IN  [tables EXCEPT ![i].annotations = Append(@, annotation)]

AnnotationsOf(tables, target) ==
    IF KeyIndex(tables, target) = 0 THEN <<>>
    ELSE tables[KeyIndex(tables, target)].annotations

\* every annotation of an ordered dict of tables, with the key it is under
AllAnnotations(tables) ==
    UNION {{[target |-> tables[i].target, annotation |-> tables[i].annotations[j]] :
              j \in 1..Len(tables[i].annotations)} : i \in 1..Len(tables)}

\* the ids of the annotations of an ordered dict of tables
IdsOf(tables) == {x.annotation.id : x \in AllAnnotations(tables)}

\* ------------------------------------------------------- get_annotations
\* The merge carries merged["tables"] and seen_ids.
EmptyMerge == [tables |-> <<>>, seen |-> {}]

RECURSIVE MergeAnnotations(_, _, _)
\* for annotation in table_data["annotations"]: append it unless its id was seen
MergeAnnotations(m, target, annotations) ==
    IF annotations = <<>> THEN m
    ELSE LET a == Head(annotations)
             next == IF a.id \in m.seen THEN m
                     ELSE [tables |-> AppendAnnotation(m.tables, target, a),
                           seen |-> m.seen \cup {a.id}]
         IN  MergeAnnotations(next, target, Tail(annotations))

RECURSIVE MergeTables(_, _)
\* for table_target, table_data in user_data["tables"].items()
MergeTables(m, tables) ==
    IF tables = <<>> THEN m
    ELSE LET entry == Head(tables)
             keyed == [m EXCEPT !.tables = SetDefault(@, entry.target)]
         IN  MergeTables(MergeAnnotations(keyed, entry.target, entry.annotations),
                         Tail(tables))

RECURSIVE MergeFiles(_, _)
\* for user_file in user_files, in the order glob listed them.  The result
\* is the merge, or the exception that left the loop: a list has no .get.
MergeFiles(m, contents) ==
    IF contents = <<>> THEN [raised |-> "none", merged |-> m]
    ELSE LET data == LoadJsonFile(Head(contents))
         IN  IF data.raised # "none"
             THEN [raised |-> data.raised, merged |-> m]
             ELSE IF data.shape # "dict"
             THEN [raised |-> "AttributeError", merged |-> m]
             ELSE MergeFiles(MergeTables(m, data.tables), Tail(contents))

NoTarget == <<>>

\* get_annotations(target) over the files glob("*.json") listed, in that
\* order; target NoTarget is the call without a filter.  Without the
\* annotations directory the call returns {"tables": {}} whatever the target.
GetAnnotations(dirExists, contents, target) ==
    LET r == MergeFiles(EmptyMerge, contents)
    IN  IF ~dirExists
        THEN [raised |-> "none", target |-> NoTarget, tables |-> <<>>,
              annotations |-> <<>>]
        ELSE IF r.raised # "none"
        THEN [raised |-> r.raised, target |-> target, tables |-> <<>>,
              annotations |-> <<>>]
        ELSE IF target # NoTarget
        THEN [raised |-> "none", target |-> target, tables |-> <<>>,
              annotations |-> AnnotationsOf(r.merged.tables, target)]
        ELSE [raised |-> "none", target |-> NoTarget,
              tables |-> r.merged.tables, annotations |-> <<>>]

\* The orders in which glob may list the files that exist.
ExistingFiles(files) == {f \in DOMAIN files : files[f].kind # "missing"}

GlobOrders(files) ==
    {o \in UNION {[1..n -> ExistingFiles(files)] : n \in {Cardinality(ExistingFiles(files))}} :
        \A i, j \in DOMAIN o : i # j => o[i] # o[j]}

ContentsIn(files, order) == [i \in DOMAIN order |-> files[order[i]]]

\* ------------------------------------------------- inputs of the model
Procs == {"p1", "p2"}
\* the caller whose add_annotation calls run one after another
SequentialCallers == {"p1"}

TargetOrder == <<"O", ".", "d", ".", "o">>
TargetCustomer == <<"O", ".", "d", ".", "c">>
ValidTargets == {TargetOrder, TargetCustomer}
\* targets a caller may pass: the two above, "", "O.o" and "O.d.o.1"
CallTargets ==
    ValidTargets \cup
    { <<>>, <<"O", ".", "o">>, <<"O", ".", "d", ".", "o", ".", "1">> }

CallTypes == {"note", "quality_flag", "warning"}

ContentTrusted == [text |-> "TRUSTED", len |-> 7]
ContentHello == [text |-> "hello", len |-> 5]
ContentAtLimit == [text |-> "x * 10000", len |-> MAX_CONTENT_LENGTH]
ContentOverLimit == [text |-> "x * 10001", len |-> MAX_CONTENT_LENGTH + 1]
CallContents == {ContentTrusted, ContentAtLimit, ContentOverLimit}

\* Annotations other installations wrote: 101 exists in two versions, as a
\* copied and then edited file holds it.
Foreign101 ==
    [id |-> 101, type |-> "note", content |-> ContentHello, author |-> FileC]
Foreign101Edited ==
    [id |-> 101, type |-> "deprecation", content |-> ContentTrusted, author |-> FileAB]
Foreign102 ==
    [id |-> 102, type |-> "note", content |-> ContentHello, author |-> FileC]

\* What a file of the directory may hold before the first step.
InitContents ==
    { Missing, TextFile, BytesFile, JsonListFile,
      JsonFile(<< [target |-> TargetOrder, annotations |-> <<Foreign101>>] >>),
      JsonFile(<< [target |-> TargetOrder, annotations |-> <<Foreign101Edited>>] >>),
      JsonFile(<< [target |-> TargetCustomer,
                   annotations |-> <<Foreign101, Foreign102>>] >>) }

NoAnnotation == [id |-> 0, type |-> "", content |-> [text |-> "", len |-> 0],
                 author |-> <<>>]
NoCall == [username |-> <<>>, target |-> <<>>, type |-> "",
           content |-> [text |-> "", len |-> 0], data |-> <<>>,
           annotation |-> NoAnnotation, tmp |-> 0]
NoOutcome == [status |-> "none", annotation |-> NoAnnotation, file |-> <<>>]
Ended(status) == [status |-> status, annotation |-> NoAnnotation, file |-> <<>>]
NoRead == [raised |-> "no call", target |-> NoTarget, tables |-> <<>>,
           annotations |-> <<>>]

\* Everything but the files, before the first step.
AnnStart ==
    /\ annDir \in BOOLEAN
    /\ (ExistingFiles(annFiles) # {}) => annDir
    /\ tmpFiles = {}
    /\ nextTmp = 1
    /\ nextId = 1
    /\ pc = [p \in Procs |-> "idle"]
    /\ call = [p \in Procs |-> NoCall]
    /\ outcome = [p \in Procs |-> NoOutcome]
    /\ readResult = NoRead
    /\ saved = {}
    /\ calls = 0

\* The writer's directory: one author has no file yet, the other's holds
\* anything.
AnnInit ==
    /\ annFiles \in [FileNames -> InitContents]
    /\ annFiles[FileAB].kind = "missing"
    /\ AnnStart

\* The reader's directory: every file holds anything.
MergeInit ==
    /\ annFiles \in [FileNames \cup {FileD} -> InitContents]
    /\ AnnStart

\* ---------------------------------------------------------- add_annotation
\* A validation that asks for at least two dots.
ValidationErrorAtLeastTwoDots(target, type, content) ==
    IF target = <<>> \/ CountChar(target, ".") < 2 THEN "Invalid target format"
    ELSE IF type \notin VALID_ANNOTATION_TYPES THEN "Invalid annotation type"
    ELSE IF type = "quality_flag" /\ content.text \notin QUALITY_FLAG_VALUES
    THEN "Invalid quality flag"
    ELSE IF content.len > MAX_CONTENT_LENGTH THEN "Content exceeds"
    ELSE "none"

\* The validation of add_annotation: the ValueError it raises, or "none".
ValidationError(target, type, content) ==
    IF target = <<>> \/ CountChar(target, ".") # 2 THEN "Invalid target format"
    ELSE IF type \notin VALID_ANNOTATION_TYPES THEN "Invalid annotation type"
    ELSE IF type = "quality_flag" /\ content.text \notin QUALITY_FLAG_VALUES
    THEN "Invalid quality flag"
    ELSE IF content.len > MAX_CONTENT_LENGTH THEN "Content exceeds"
    ELSE "none"

\* add_annotation up to get_user_annotation_path: a ValueError ends the call
\* before anything is read or written.
AddAnnotationValidate(p, env, target, type, content) ==
    /\ pc[p] = "idle"
    /\ IF ValidationError(target, type, content) # "none"
       THEN /\ outcome' = [outcome EXCEPT ![p] = Ended("ValueError")]
            /\ UNCHANGED <<pc, call, calls>>
       ELSE /\ calls < MaxCalls
            /\ calls' = calls + 1
            /\ pc' = [pc EXCEPT ![p] = "load"]
            /\ call' = [call EXCEPT ![p] =
                          [NoCall EXCEPT !.username = GetUsername(env),
                                         !.target = target, !.type = type,
                                         !.content = content]]
            /\ outcome' = [outcome EXCEPT ![p] = NoOutcome]
    /\ readResult' = NoRead
    /\ UNCHANGED <<annFiles, annDir, tmpFiles, nextTmp, nextId, saved>>
    /\ UNCHANGED otherThanAnnVars

\* A load that starts every call from the empty structure.
AddAnnotationLoadStartingEmpty(p) ==
    /\ pc[p] = "load"
    /\ LET c == call[p]
           annotation == [id |-> nextId, type |-> c.type, content |-> c.content,
                          author |-> c.username]
       IN  /\ call' = [call EXCEPT ![p] =
                [c EXCEPT !.annotation = annotation,
                          !.data = AppendAnnotation(
                              SetDefault(<<>>, c.target), c.target, annotation)]]
           /\ nextId' = nextId + 1
           /\ pc' = [pc EXCEPT ![p] = "mkstemp"]
           /\ UNCHANGED outcome
    /\ readResult' = NoRead
    /\ UNCHANGED <<annFiles, annDir, tmpFiles, nextTmp, saved, calls>>
    /\ UNCHANGED otherThanAnnVars

\* data = _load_json_file(user_path), the table initialised, the annotation
\* created and appended to data.  A list has no key "tables": TypeError.
AddAnnotationLoad(p) ==
    /\ pc[p] = "load"
    /\ LET c == call[p]
           data == LoadJsonFile(annFiles[c.username])
           annotation == [id |-> nextId, type |-> c.type, content |-> c.content,
                          author |-> c.username]
       IN  IF data.raised # "none" \/ data.shape # "dict"
           THEN /\ outcome' = [outcome EXCEPT ![p] =
                     Ended(IF data.raised # "none" THEN data.raised ELSE "TypeError")]
                /\ pc' = [pc EXCEPT ![p] = "idle"]
                /\ call' = [call EXCEPT ![p] = NoCall]
                /\ UNCHANGED nextId
           ELSE /\ call' = [call EXCEPT ![p] =
                     [c EXCEPT !.annotation = annotation,
                               !.data = AppendAnnotation(
                                   SetDefault(data.tables, c.target), c.target, annotation)]]
                /\ nextId' = nextId + 1
                /\ pc' = [pc EXCEPT ![p] = "mkstemp"]
                /\ UNCHANGED outcome
    /\ readResult' = NoRead
    /\ UNCHANGED <<annFiles, annDir, tmpFiles, nextTmp, saved, calls>>
    /\ UNCHANGED otherThanAnnVars

\* ------------------------------------------------------------ _atomic_write
TmpFile(name) == CHOOSE t \in tmpFiles : t.name = name

\* path.parent.mkdir and tempfile.mkstemp: an empty file of a fresh name
AtomicWriteMkstemp(p) ==
    /\ pc[p] = "mkstemp"
    /\ annDir' = TRUE
    /\ tmpFiles' = tmpFiles \cup {[name |-> nextTmp, content |-> EmptyFile]}
    /\ nextTmp' = nextTmp + 1
    /\ call' = [call EXCEPT ![p].tmp = nextTmp]
    /\ pc' = [pc EXCEPT ![p] = "write"]
    /\ readResult' = NoRead
    /\ UNCHANGED <<annFiles, nextId, outcome, saved, calls>>
    /\ UNCHANGED otherThanAnnVars

\* A write that goes to the author's file itself.
AtomicWriteInPlace(p) ==
    /\ pc[p] = "write"
    /\ annFiles' = [annFiles EXCEPT ![call[p].username] = PartialFile(call[p].data)]
    /\ tmpFiles' = {IF t.name = call[p].tmp
                    THEN [t EXCEPT !.content = PartialFile(call[p].data)] ELSE t :
                    t \in tmpFiles}
    /\ pc' = [pc EXCEPT ![p] = "writing"]
    /\ readResult' = NoRead
    /\ UNCHANGED <<annDir, nextTmp, nextId, call, outcome, saved, calls>>
    /\ UNCHANGED otherThanAnnVars

\* os.write(fd, content) under way: the temporary file holds a prefix of the
\* document
AtomicWriteStart(p) ==
    /\ pc[p] = "write"
    /\ tmpFiles' = {IF t.name = call[p].tmp
                    THEN [t EXCEPT !.content = PartialFile(call[p].data)] ELSE t :
                    t \in tmpFiles}
    /\ pc' = [pc EXCEPT ![p] = "writing"]
    /\ readResult' = NoRead
    /\ UNCHANGED <<annFiles, annDir, nextTmp, nextId, call, outcome, saved,
                   calls>>
    /\ UNCHANGED otherThanAnnVars

\* os.write done and os.close: the temporary file holds the whole document
AtomicWriteFinish(p) ==
    /\ pc[p] = "writing"
    /\ tmpFiles' = {IF t.name = call[p].tmp
                    THEN [t EXCEPT !.content = JsonFile(call[p].data)] ELSE t :
                    t \in tmpFiles}
    /\ pc' = [pc EXCEPT ![p] = "replace"]
    /\ readResult' = NoRead
    /\ UNCHANGED <<annFiles, annDir, nextTmp, nextId, call, outcome, saved,
                   calls>>
    /\ UNCHANGED otherThanAnnVars

\* os.replace(tmp_path, path) and add_annotation's return
AtomicWriteReplace(p) ==
    /\ pc[p] = "replace"
    /\ annFiles' = [annFiles EXCEPT ![call[p].username] = TmpFile(call[p].tmp).content]
    /\ tmpFiles' = tmpFiles \ {TmpFile(call[p].tmp)}
    /\ outcome' = [outcome EXCEPT ![p] =
                     [status |-> "ok", annotation |-> call[p].annotation,
                      file |-> call[p].username]]
    /\ saved' = saved \cup {[file |-> call[p].username, target |-> call[p].target,
                             annotation |-> call[p].annotation]}
    /\ pc' = [pc EXCEPT ![p] = "idle"]
    /\ call' = [call EXCEPT ![p] = NoCall]
    /\ readResult' = NoRead
    /\ UNCHANGED <<annDir, nextTmp, nextId, calls>>
    /\ UNCHANGED otherThanAnnVars

\* os.replace raises: the temporary file is unlinked and the error re-raised
AtomicWriteReplaceFails(p) ==
    /\ pc[p] = "replace"
    /\ tmpFiles' = tmpFiles \ {TmpFile(call[p].tmp)}
    /\ outcome' = [outcome EXCEPT ![p] = Ended("OSError")]
    /\ pc' = [pc EXCEPT ![p] = "idle"]
    /\ call' = [call EXCEPT ![p] = NoCall]
    /\ readResult' = NoRead
    /\ UNCHANGED <<annFiles, annDir, nextTmp, nextId, saved, calls>>
    /\ UNCHANGED otherThanAnnVars

\* The process dies inside add_annotation: it takes no further step, and the
\* files stay as they are.
Crash(p) ==
    /\ pc[p] \notin {"idle", "crashed"}
    /\ pc' = [pc EXCEPT ![p] = "crashed"]
    /\ call' = [call EXCEPT ![p] = NoCall]
    /\ outcome' = [outcome EXCEPT ![p] = Ended("crashed")]
    /\ readResult' = NoRead
    /\ UNCHANGED <<annFiles, annDir, tmpFiles, nextTmp, nextId, saved, calls>>
    /\ UNCHANGED otherThanAnnVars

\* A get_annotations call: glob lists the files in some order.
GetAnnotationsCall(order, target) ==
    /\ readResult' = GetAnnotations(annDir, ContentsIn(annFiles, order), target)
    /\ UNCHANGED <<annFiles, annDir, tmpFiles, nextTmp, nextId, pc, call,
                   outcome, saved, calls>>
    /\ UNCHANGED otherThanAnnVars

\* ------------------------------ catalog refresh and procedure analysis runs
Targets == {"oms", "warehouse"}
\* What get_accessible_databases (sys.databases) lists for a target.
Databases == <<"db1", "db2">>
\* The four queries analyze_target makes per database, in order.
AnalysisParts == <<"procs", "stats", "query_store", "deps">>

Row(target, db, scan, part) ==
    [target |-> target, database |-> db, scan |-> scan, part |-> part]
NotScanned == {Row("", "", "", "not scanned")}
NoDatabase == ""

NoCatalog == [kind |-> "missing", schema |-> "none", rows |-> {}]
Catalog(schema, rows) == [kind |-> "complete", schema |-> schema, rows |-> rows]
\* The file while write_parquet is writing it.
PartialCatalog == [kind |-> "partial", schema |-> "none", rows |-> {}]

EarlierRows(targets) == {Row(t, "db1", "earlier", "metadata") : t \in targets}
RowsOf(rows, target) == {r \in rows : r.target = target}

Printed(ev, target, db) == [ev |-> ev, target |-> target, database |-> db]

RECURSIVE Concat(_)
\* pl.concat of a list of frames
Concat(frames) ==
    IF frames = <<>> THEN {} ELSE Head(frames) \cup Concat(Tail(frames))

IsPrefix(s, t) == Len(s) <= Len(t) /\ \A i \in 1..Len(s) : s[i] = t[i]

CurrentTarget == targetsToScan[targetIdx]

\* The catalogs an earlier refresh can have left.
InitCatalogs ==
    {NoCatalog} \cup
    {Catalog(d, EarlierRows(ts)) : d \in {"metadata", "profile"},
                                   ts \in {{"oms"}, Targets}}

\* The variables of a run before main's loop starts.
RunStart ==
    /\ depth \in {"metadata", "profile"}
    /\ environ \in SUBSET Targets
    /\ targetsToScan \in {<<"oms", "warehouse">>, <<"warehouse">>}
    /\ catalog \in InitCatalogs
    /\ lastScan = [t \in Targets |->
                     IF RowsOf(catalog.rows, t) = {} THEN -1
                     ELSE Cardinality(RowsOf(catalog.rows, t))]
    /\ rpc = "loop"
    /\ targetIdx = 1
    /\ dbIdx = 1
    /\ allMetadata = <<>>
    /\ allData = <<>>
    /\ result = NoCatalog
    /\ scanned = [t \in Targets |-> NotScanned]
    /\ printed = <<>>
    /\ outputs = {}
    /\ exitStatus = -1
    /\ observed = [kind |-> "no call", rows |-> {}]

RunInit ==
    /\ tool \in {"refresh", "analyze"}
    /\ RunStart

\* No run: the variables of a run while other operations are looked at.
NoRun ==
    /\ tool = "refresh"
    /\ depth = "metadata"
    /\ environ = {}
    /\ targetsToScan = <<>>
    /\ catalog = NoCatalog
    /\ lastScan = [t \in Targets |-> -1]
    /\ rpc = "done"
    /\ targetIdx = 1
    /\ dbIdx = 1
    /\ allMetadata = <<>>
    /\ allData = <<>>
    /\ result = NoCatalog
    /\ scanned = [t \in Targets |-> NotScanned]
    /\ printed = <<>>
    /\ outputs = {}
    /\ exitStatus = -1
    /\ observed = [kind |-> "no call", rows |-> {}]

\* main's except clause: the error is printed and the loop goes on to the
\* next target.
TargetFailed(error) ==
    /\ printed' = printed \o <<Printed(error, CurrentTarget, NoDatabase)>>
    /\ targetIdx' = targetIdx + 1
    /\ rpc' = "loop"

\* main's loop enters a target: scan_target (analyze_target) calls
\* get_connection, which raises EnvironmentError when a credential variable
\* is not set, and else connects, which may fail too.
GetConnection(connects) ==
    /\ rpc = "loop"
    /\ targetIdx <= Len(targetsToScan)
    /\ LET entered == printed \o <<Printed("target", CurrentTarget, NoDatabase)>>
       IN  IF CurrentTarget \notin environ
           THEN /\ printed' = entered \o
                      <<Printed("EnvironmentError", CurrentTarget, NoDatabase)>>
                /\ targetIdx' = targetIdx + 1
                /\ rpc' = "loop"
           ELSE IF ~connects
           THEN /\ printed' = entered \o
                      <<Printed("OperationalError", CurrentTarget, NoDatabase)>>
                /\ targetIdx' = targetIdx + 1
                /\ rpc' = "loop"
           ELSE /\ printed' = entered
                /\ rpc' = "connected"
                /\ UNCHANGED targetIdx
    /\ UNCHANGED <<tool, depth, environ, targetsToScan, catalog, lastScan,
                   dbIdx, allMetadata, allData, result, scanned, outputs,
                   exitStatus, observed>>
    /\ UNCHANGED otherThanRefreshVars

\* The databases of the target are listed; the query may fail.
ListDatabases(listed) ==
    /\ rpc = "connected"
    /\ IF listed
       THEN /\ printed' = printed \o
                  <<Printed("found databases", CurrentTarget, NoDatabase)>>
            /\ rpc' = "db"
            /\ dbIdx' = 1
            /\ allMetadata' = <<>>
            /\ UNCHANGED targetIdx
       ELSE /\ TargetFailed("ERROR")
            /\ UNCHANGED <<dbIdx, allMetadata>>
    /\ UNCHANGED <<tool, depth, environ, targetsToScan, catalog, lastScan,
                   allData, result, scanned, outputs, exitStatus, observed>>
    /\ UNCHANGED otherThanRefreshVars

\* A database loop that lets the failure of one database end the target.
ScanDatabaseFailFast(found) ==
    /\ tool = "refresh"
    /\ rpc = "db"
    /\ dbIdx <= Len(Databases)
    /\ LET db == Databases[dbIdx]
           scanning == printed \o <<Printed("database", CurrentTarget, db)>>
       IN  IF found = "fail"
           THEN /\ printed' = scanning \o <<Printed("ERROR", CurrentTarget, NoDatabase)>>
                /\ targetIdx' = targetIdx + 1
                /\ rpc' = "loop"
                /\ UNCHANGED <<allMetadata, dbIdx>>
           ELSE /\ printed' = scanning
                /\ allMetadata' =
                     IF found = "rows"
                     THEN Append(allMetadata,
                                 {Row(CurrentTarget, db, "this", "metadata")})
                     ELSE allMetadata
                /\ dbIdx' = dbIdx + 1
                /\ UNCHANGED <<targetIdx, rpc>>
    /\ UNCHANGED <<tool, depth, environ, targetsToScan, catalog, lastScan,
                   allData, result, scanned, outputs, exitStatus, observed>>
    /\ UNCHANGED otherThanRefreshVars

\* scan_target scans one database: get_all_metadata finds rows, finds none,
\* or fails, which is printed as a warning.
ScanDatabase(found) ==
    /\ tool = "refresh"
    /\ rpc = "db"
    /\ dbIdx <= Len(Databases)
    /\ LET db == Databases[dbIdx]
           scanning == printed \o <<Printed("database", CurrentTarget, db)>>
       IN  /\ printed' =
                IF found = "fail"
                THEN scanning \o <<Printed("WARNING", CurrentTarget, db)>>
                ELSE scanning
           /\ allMetadata' =
                IF found = "rows"
                THEN Append(allMetadata,
                            {Row(CurrentTarget, db, "this", "metadata")})
                ELSE allMetadata
    /\ dbIdx' = dbIdx + 1
    /\ UNCHANGED <<tool, depth, environ, targetsToScan, catalog, lastScan, rpc,
                   targetIdx, allData, result, scanned, outputs, exitStatus,
                   observed>>
    /\ UNCHANGED otherThanRefreshVars

\* The frames the first `completed` queries of a database add.
RECURSIVE PartFrames(_, _, _)
PartFrames(target, db, completed) ==
    IF completed = 0 THEN <<>>
    ELSE Append(PartFrames(target, db, completed - 1),
                {Row(target, db, "this", AnalysisParts[completed])})

\* analyze_target analyzes one database: each of the four queries adds what
\* it found before the next one runs; the first to fail ends the database
\* with a warning.
AnalyzeDatabase(completed, found) ==
    /\ tool = "analyze"
    /\ rpc = "db"
    /\ dbIdx <= Len(Databases)
    /\ LET db == Databases[dbIdx]
           analyzing == printed \o <<Printed("database", CurrentTarget, db)>>
       IN  /\ printed' =
                IF completed < Len(AnalysisParts)
                THEN analyzing \o <<Printed("WARNING", CurrentTarget, db)>>
                ELSE analyzing
           /\ allMetadata' =
                IF found
                THEN allMetadata \o PartFrames(CurrentTarget, db, completed)
                ELSE allMetadata
    /\ dbIdx' = dbIdx + 1
    /\ UNCHANGED <<tool, depth, environ, targetsToScan, catalog, lastScan, rpc,
                   targetIdx, allData, result, scanned, outputs, exitStatus,
                   observed>>
    /\ UNCHANGED otherThanRefreshVars

\* scan_target returns the concatenated frame (an empty one when no database
\* gave rows); main keeps a frame that is not empty in all_data and goes on
\* to write_global_catalog with it, and skips an empty one.
ScanTargetReturn ==
    /\ tool = "refresh"
    /\ rpc = "db"
    /\ dbIdx > Len(Databases)
    /\ LET df == Concat(allMetadata)
       IN  /\ scanned' = [scanned EXCEPT ![CurrentTarget] = df]
           /\ IF df # {}
              THEN /\ allData' = Append(allData, df)
                   /\ rpc' = "write"
                   /\ UNCHANGED targetIdx
              ELSE /\ targetIdx' = targetIdx + 1
                   /\ rpc' = "loop"
                   /\ UNCHANGED allData
    /\ UNCHANGED <<tool, depth, environ, targetsToScan, catalog, lastScan,
                   dbIdx, allMetadata, result, printed, outputs, exitStatus,
                   observed>>
    /\ UNCHANGED otherThanRefreshVars

\* The frames of a list that are not empty.
NonEmpty(frames) == SelectSeq(frames, LAMBDA f : f # {})

\* analyze_target ends: the report-server log query and build_analysis run
\* after the database loop, outside its try; when they succeed main keeps the
\* procedures and the statistics that are not empty.
AnalyzeTargetReturn(built) ==
    /\ tool = "analyze"
    /\ rpc = "db"
    /\ dbIdx > Len(Databases)
    /\ LET all == Concat(allMetadata)
           procs == {r \in all : r.part = "procs"}
           stats == {r \in all : r.part \in {"stats", "query_store"}}
       IN  IF built
           THEN /\ scanned' = [scanned EXCEPT ![CurrentTarget] = all]
                /\ allData' = allData \o NonEmpty(<<procs, stats>>)
                /\ targetIdx' = targetIdx + 1
                /\ rpc' = "loop"
                /\ UNCHANGED printed
           ELSE /\ TargetFailed("ERROR")
                /\ UNCHANGED <<scanned, allData>>
    /\ UNCHANGED <<tool, depth, environ, targetsToScan, catalog, lastScan,
                   dbIdx, allMetadata, result, outputs, exitStatus, observed>>
    /\ UNCHANGED otherThanRefreshVars

\* write_global_catalog up to the start of write_parquet: the existing
\* catalog is read, the rows of the target are dropped from it and the new
\* frame is concatenated to the rest, which fails when the two differ in
\* their columns (a catalog of the other depth) or when the file cannot be
\* read; then write_parquet opens metadata.parquet itself and starts to write.
WriteGlobalCatalogStart ==
    /\ rpc = "write"
    /\ LET df == allData[Len(allData)]
       IN  IF catalog.kind = "missing"
           THEN /\ result' = Catalog(depth, df)
                /\ catalog' = PartialCatalog
                /\ rpc' = "writing"
                /\ UNCHANGED <<targetIdx, printed>>
           ELSE IF catalog.kind = "partial" \/ catalog.schema # depth
           THEN /\ TargetFailed("ERROR")
                /\ UNCHANGED <<result, catalog>>
           ELSE /\ result' = Catalog(depth,
                                {r \in catalog.rows : r.target # CurrentTarget}
                                \cup df)
                /\ catalog' = PartialCatalog
                /\ rpc' = "writing"
                /\ UNCHANGED <<targetIdx, printed>>
    /\ UNCHANGED <<tool, depth, environ, targetsToScan, lastScan, dbIdx,
                   allMetadata, allData, scanned, outputs, exitStatus, observed>>
    /\ UNCHANGED otherThanRefreshVars

\* write_parquet ends, and update_scan_metadata records the target's row
\* count in last_scan.json.
WriteGlobalCatalogFinish ==
    /\ rpc = "writing"
    /\ catalog' = result
    /\ result' = NoCatalog
    /\ lastScan' = [lastScan EXCEPT
                      ![CurrentTarget] = Cardinality(allData[Len(allData)])]
    /\ targetIdx' = targetIdx + 1
    /\ rpc' = "loop"
    /\ UNCHANGED <<tool, depth, environ, targetsToScan, dbIdx, allMetadata,
                   allData, scanned, printed, outputs, exitStatus, observed>>
    /\ UNCHANGED otherThanRefreshVars

\* After the loop: catalog_refresh exits with status 1 when no target gave
\* data and else writes the summary of everything collected;
\* analyze_procedures writes what it collected.
MainFinish ==
    /\ rpc = "loop"
    /\ targetIdx > Len(targetsToScan)
    /\ rpc' = "done"
    /\ IF tool = "refresh" /\ allData = <<>>
       THEN exitStatus' = 1 /\ UNCHANGED outputs
       ELSE exitStatus' = 0 /\ outputs' = Concat(allData)
    /\ UNCHANGED <<tool, depth, environ, targetsToScan, catalog, lastScan,
                   targetIdx, dbIdx, allMetadata, allData, result, scanned,
                   printed, observed>>
    /\ UNCHANGED otherThanRefreshVars

\* The catalog server's search_catalog, in another process: it raises
\* FileNotFoundError when there is no metadata.parquet and else reads the
\* file as it is.
SearchCatalog ==
    /\ observed' = [kind |-> catalog.kind, rows |-> catalog.rows]
    /\ UNCHANGED <<tool, depth, environ, targetsToScan, catalog, lastScan, rpc,
                   targetIdx, dbIdx, allMetadata, allData, result, scanned,
                   printed, outputs, exitStatus>>
    /\ UNCHANGED otherThanRefreshVars

\* One run of catalog_refresh or analyze_procedures, and a reader
RunNext ==
    \/ \E connects \in BOOLEAN : GetConnection(connects)
    \/ \E listed \in BOOLEAN : ListDatabases(listed)
    \/ \E found \in {"rows", "empty", "fail"} : ScanDatabase(found)
    \/ \E completed \in 0..Len(AnalysisParts), found \in BOOLEAN :
          AnalyzeDatabase(completed, found)
    \/ ScanTargetReturn
    \/ \E built \in BOOLEAN : AnalyzeTargetReturn(built)
    \/ WriteGlobalCatalogStart
    \/ WriteGlobalCatalogFinish
    \/ MainFinish
    \/ SearchCatalog

\* ---------------------------------------------------- ProcedureParser.parse
MaxStatements == 2

\* The extraction phases of _extract_from_statement, in the order it calls
\* them.
Phases == <<"joins", "aggregations", "filters", "metrics", "references">>

\* The nodes a phase finds in a statement, in the order find_all gives them:
\* TRUE for a node the phase can read, FALSE for one that makes it raise.
NodeLists == {<<TRUE>>, <<TRUE, FALSE, TRUE>>}
PhaseIndex(phase) == CHOOSE i \in 1..Len(Phases) : Phases[i] = phase
\* sqlglot gives None for a statement it could not build.
PhaseNames == {Phases[i] : i \in 1..Len(Phases)}
NoStatement == [ph \in PhaseNames |-> <<>>]
Statements == [PhaseNames -> NodeLists] \cup {NoStatement}

EmptySql == [kind |-> "empty", statements |-> <<>>]
\* a text of spaces and line ends only
WhitespaceSql == [kind |-> "whitespace", statements |-> <<>>]
UnparseableSql == [kind |-> "unparseable", statements |-> <<>>]
Sql(statements) == [kind |-> "statements", statements |-> statements]

\* ParsedProcedure()
EmptyParsedProcedure ==
    [joins |-> <<>>, aggregations |-> <<>>, filters |-> <<>>, metrics |-> <<>>,
     references |-> {}, parse_errors |-> <<>>]

Pattern(s, k) == [statement |-> s, node |-> k]

\* The patterns of the nodes of a statement a phase can read.
RECURSIVE PatternsFrom(_, _, _)
PatternsFrom(nodes, s, k) ==
    IF k > Len(nodes) THEN <<>>
    ELSE (IF nodes[k] THEN <<Pattern(s, k)>> ELSE <<>>)
         \o PatternsFrom(nodes, s, k + 1)

\* The position of the first node that makes a phase raise, or 0.
FirstMalformed(nodes) ==
    IF \A k \in 1..Len(nodes) : nodes[k] THEN 0
    ELSE CHOOSE k \in 1..Len(nodes) :
            ~nodes[k] /\ \A j \in 1..(k - 1) : nodes[j]

ParseInit ==
    /\ available \in BOOLEAN
    /\ sql \in {EmptySql, WhitespaceSql, UnparseableSql}
               \cup {Sql(ss) : ss \in UNION {[1..n -> Statements] : n \in 1..MaxStatements}}
    /\ ppc = "parse"
    /\ stmtIdx = 1
    /\ parsed = EmptyParsedProcedure
    /\ ran = {}

\* No parse call.
NoParse ==
    /\ available = TRUE
    /\ sql = EmptySql
    /\ ppc = "done"
    /\ stmtIdx = 1
    /\ parsed = EmptyParsedProcedure
    /\ ran = {}

\* parse up to its loop: without sqlglot, for an empty text and for a text
\* sqlglot cannot read it returns with one error.
ParseSql ==
    /\ ppc = "parse"
    /\ IF ~available
       THEN /\ parsed' = [parsed EXCEPT !.parse_errors = <<"sqlglot not available">>]
            /\ ppc' = "done"
       ELSE IF sql.kind \in {"empty", "whitespace"}
       THEN /\ parsed' = [parsed EXCEPT !.parse_errors = <<"Empty SQL">>]
            /\ ppc' = "done"
       ELSE IF sql.kind = "unparseable"
       THEN /\ parsed' = [parsed EXCEPT !.parse_errors = <<"Parse error">>]
            /\ ppc' = "done"
       ELSE /\ ppc' = "statement"
            /\ UNCHANGED parsed
    /\ UNCHANGED <<available, sql, stmtIdx, ran>>
    /\ UNCHANGED otherThanParseVars

\* parse's loop: a None statement is skipped, another one goes to
\* _extract_from_statement; after the last one parse returns.
NextStatement ==
    /\ ppc = "statement"
    /\ IF stmtIdx > Len(sql.statements)
       THEN ppc' = "done" /\ UNCHANGED stmtIdx
       ELSE IF sql.statements[stmtIdx] = NoStatement
       THEN ppc' = "statement" /\ stmtIdx' = stmtIdx + 1
       ELSE ppc' = Phases[1] /\ UNCHANGED stmtIdx
    /\ UNCHANGED <<available, sql, parsed, ran>>
    /\ UNCHANGED otherThanParseVars

\* What a phase adds to the result.
Extracted(phase, found) ==
    [parsed EXCEPT ![phase] = IF phase = "references"
                              THEN @ \cup {found[k] : k \in 1..Len(found)}
                              ELSE @ \o found]

\* After a phase _extract_from_statement calls the next one, and returns to
\* parse's loop after the last.
AfterPhase(phase) ==
    IF PhaseIndex(phase) < Len(Phases)
    THEN /\ ppc' = Phases[PhaseIndex(phase) + 1]
         /\ UNCHANGED stmtIdx
    ELSE /\ ppc' = "statement"
         /\ stmtIdx' = stmtIdx + 1

\* A phase with a try around each node: a node it cannot read is skipped.
ExtractGuarded(phase) ==
    /\ ppc = phase
    /\ ran' = ran \cup {<<stmtIdx, phase>>}
    /\ parsed' = Extracted(phase,
                           PatternsFrom(sql.statements[stmtIdx][phase], stmtIdx, 1))
    /\ AfterPhase(phase)
    /\ UNCHANGED <<available, sql>>
    /\ UNCHANGED otherThanParseVars

\* A phase without a try: the first node it cannot read raises out of
\* _extract_from_statement; parse records an analysis error and goes on with
\* the next statement.
ExtractUnguarded(phase) ==
    /\ ppc = phase
    /\ ran' = ran \cup {<<stmtIdx, phase>>}
    /\ LET nodes == sql.statements[stmtIdx][phase]
           bad == FirstMalformed(nodes)
       IN  IF bad = 0
           THEN /\ parsed' = Extracted(phase, PatternsFrom(nodes, stmtIdx, 1))
                /\ AfterPhase(phase)
           ELSE /\ parsed' =
                     [Extracted(phase,
                                PatternsFrom(SubSeq(nodes, 1, bad - 1), stmtIdx, 1))
                        EXCEPT !.parse_errors = Append(@, "Analysis error")]
                /\ ppc' = "statement"
                /\ stmtIdx' = stmtIdx + 1
    /\ UNCHANGED <<available, sql>>
    /\ UNCHANGED otherThanParseVars

\* A references phase whose exception parse does not catch: it leaves parse.
ExtractReferencesUncaught ==
    /\ ppc = "references"
    /\ ran' = ran \cup {<<stmtIdx, "references">>}
    /\ LET nodes == sql.statements[stmtIdx]["references"]
           bad == FirstMalformed(nodes)
       IN  IF bad = 0
           THEN /\ parsed' = Extracted("references", PatternsFrom(nodes, stmtIdx, 1))
                /\ AfterPhase("references")
           ELSE /\ parsed' = Extracted("references",
                                      PatternsFrom(SubSeq(nodes, 1, bad - 1), stmtIdx, 1))
                /\ ppc' = "raised"
                /\ UNCHANGED stmtIdx
    /\ UNCHANGED <<available, sql>>
    /\ UNCHANGED otherThanParseVars

\* A join phase without the try around each join.
ExtractJoinsUnguarded == ExtractUnguarded("joins")

ExtractJoins == ExtractGuarded("joins")
ExtractAggregations == ExtractGuarded("aggregations")
ExtractFilters == ExtractGuarded("filters")
ExtractMetrics == ExtractGuarded("metrics")
ExtractReferences == ExtractUnguarded("references")

\* One parse call
ParseNext ==
    \/ ParseSql
    \/ NextStatement
    \/ ExtractJoins
    \/ ExtractAggregations
    \/ ExtractFilters
    \/ ExtractMetrics
    \/ ExtractReferences

\* ------------------------------------------------ build_ontology: patterns
\* Names and patterns are sequences of one-character strings; the letters
\* that have an upper case here:
LowerChar(ch) ==
    CASE ch = "O" -> "o"
      [] ch = "C" -> "c"
      [] ch = "I" -> "i"
      [] ch = "D" -> "d"
      [] ch = "E" -> "e"
      [] OTHER -> ch
\* str.lower(), and what re.IGNORECASE compares
Lower(s) == [i \in DOMAIN s |-> LowerChar(s[i])]

StartsWith(s, prefix) ==
    Len(prefix) <= Len(s) /\ SubSeq(s, 1, Len(prefix)) = prefix
EndsWith(s, suffix) ==
    Len(suffix) <= Len(s) /\ SubSeq(s, Len(s) - Len(suffix) + 1, Len(s)) = suffix
Contains(s, part) ==
    \E i \in 1..(Len(s) - Len(part) + 1) : SubSeq(s, i, i + Len(part) - 1) = part

RECURSIVE WildMatch(_, _)
\* Whether all of s matches p, where each "*" of p stands for ".*" and every
\* other character for itself (re.escape(p).replace(r"\*", ".*")).
WildMatch(p, s) ==
    IF p = <<>> THEN s = <<>>
    ELSE IF Head(p) = "*"
         THEN \E i \in 0..Len(s) : WildMatch(Tail(p), SubSeq(s, i + 1, Len(s)))
         ELSE s # <<>> /\ Head(s) = Head(p) /\ WildMatch(Tail(p), Tail(s))

\* DomainClassifier._compile_patterns and pattern.search: a leading * anchors
\* the rest at the end of the name, a trailing * anchors the start, a * inside
\* matches the whole name, and a pattern without * matches anywhere.
DomainPatternMatches(pattern, name) ==
    LET p == Lower(pattern)
        n == Lower(name)
    IN  IF pattern # <<>> /\ Head(pattern) = "*"
        THEN EndsWith(n, Tail(p))
        ELSE IF pattern # <<>> /\ pattern[Len(pattern)] = "*"
        THEN StartsWith(n, SubSeq(p, 1, Len(p) - 1))
        ELSE IF "*" \in {pattern[i] : i \in 1..Len(pattern)}
        THEN WildMatch(p, n)
        ELSE Contains(n, p)

\* SemanticRoleClassifier._compile_patterns and pattern.search: the regular
\* expressions carry no anchor, so each form matches anywhere in the name; a
\* pattern that starts with ^ or ends with $ is taken as a regular
\* expression of its own.
RolePatternMatches(pattern, name) ==
    LET p == Lower(pattern)
        n == Lower(name)
    IN  IF pattern # <<>> /\ Head(pattern) = "*"
        THEN Contains(n, Tail(p))
        ELSE IF pattern # <<>> /\ pattern[Len(pattern)] = "*"
        THEN Contains(n, SubSeq(p, 1, Len(p) - 1))
        ELSE IF "*" \in {pattern[i] : i \in 1..Len(pattern)}
        THEN WildMatch(<<"*">> \o p \o <<"*">>, n)
        ELSE IF pattern # <<>> /\ Head(pattern) = "^"
        THEN IF pattern[Len(pattern)] = "$"
             THEN n = SubSeq(p, 2, Len(p) - 1)
             ELSE StartsWith(n, Tail(p))
        ELSE IF pattern # <<>> /\ pattern[Len(pattern)] = "$"
        THEN EndsWith(n, SubSeq(p, 1, Len(p) - 1))
        ELSE Contains(n, p)

\* --------------------------------------------- build_ontology: classifiers
MaxRules == 3
\* d.get("priority", 50)
DEFAULT_PRIORITY == 50
\* a rule that declares no priority
NoPriority == -1
\* fallback_domain = None, and what `or` takes an empty id for
NoFallback == ""

Rule(id, priority, fallback, affinity, patterns, types, conditions) ==
    [id |-> id, priority |-> priority, is_fallback |-> fallback,
     database_affinity |-> affinity, patterns |-> patterns,
     data_types |-> types, conditions |-> conditions]

NameOrd == <<"O", "r", "d">>
NameCust == <<"C", "u", "s", "t">>
NameItem == <<"I", "t", "e", "m">>
NameOrdId == <<"O", "r", "d", "I", "d">>
NameAmt == <<"a", "m", "t">>
TypeDec == <<"d", "e", "c">>
TypeInt == <<"i", "n", "t">>

\* The [[domains]] a configuration is made of.
DomainRules ==
    { Rule("Sales", 10, FALSE, {}, << <<"o", "r", "d", "*">> >>, {}, {}),
      Rule("Orders", 10, FALSE, {}, << <<"*", "r", "d">> >>, {}, {}),
      Rule("Crm", 5, FALSE, {"crm"}, << <<"c", "u", "s", "t">> >>, {}, {}),
      Rule("Warehouse", NoPriority, FALSE, {"wh"}, <<>>, {}, {}),
      Rule("Other", 1, TRUE, {}, <<>>, {}, {}) }

\* The [[semantic_roles]] a configuration is made of.
RoleRules ==
    { Rule("Identifier", 10, FALSE, {}, << <<"*", "i", "d">> >>, {},
           {"is_primary_key"}),
      Rule("Money", 20, FALSE, {}, << <<"a", "m", "t">> >>,
           {<<"D", "E", "C">>}, {}),
      Rule("Name", 20, FALSE, {}, << <<"a", "*">> >>, {}, {}),
      Rule("ForeignKey", NoPriority, FALSE, {}, << <<"i", "d">> >>, {},
           {"is_foreign_key"}),
      Rule("Generic", 1, TRUE, {}, <<>>, {}, {}) }

\* The rule lists of at most MaxRules rules, each rule at most once.
RuleLists(pool) ==
    UNION {{rs \in [1..n -> pool] : \A i, j \in 1..n : rs[i] = rs[j] => i = j}
           : n \in 0..MaxRules}

Args(database, name, type, isPk, isFk) ==
    [database |-> database, name |-> name, data_type |-> type,
     is_pk |-> isPk, is_fk |-> isFk]
NoArgs == Args("", <<>>, <<>>, FALSE, FALSE)
DomainArgs ==
    {Args(db, n, <<>>, FALSE, FALSE) :
        db \in {"crm", "wh", "oms"}, n \in {NameOrd, NameCust, NameItem}}
RoleArgs ==
    {Args("", n, t, pk, fk) :
        n \in {NameOrdId, NameAmt}, t \in {TypeDec, <<"D", "e", "c">>, TypeInt},
        pk \in BOOLEAN, fk \in BOOLEAN}

\* The sort key of _sort_by_priority: (priority, is_fallback).
Priority(rule) ==
    IF rule.priority = NoPriority THEN DEFAULT_PRIORITY ELSE rule.priority
KeyBefore(a, b) ==
    \/ Priority(a) < Priority(b)
    \/ Priority(a) = Priority(b) /\ ~a.is_fallback /\ b.is_fallback

RECURSIVE InsertAfterEquals(_, _)
\* rule put into a sorted list behind every rule that does not sort after it
InsertAfterEquals(sorted, rule) ==
    IF sorted = <<>> THEN <<rule>>
    ELSE IF KeyBefore(rule, Head(sorted)) THEN <<rule>> \o sorted
    ELSE <<Head(sorted)>> \o InsertAfterEquals(Tail(sorted), rule)

RECURSIVE InsertBeforeEquals(_, _)
\* rule put into a sorted list in front of the rules with its key
InsertBeforeEquals(sorted, rule) ==
    IF sorted = <<>> THEN <<rule>>
    ELSE IF ~KeyBefore(Head(sorted), rule) THEN <<rule>> \o sorted
    ELSE <<Head(sorted)>> \o InsertBeforeEquals(Tail(sorted), rule)

RECURSIVE SortUnstable(_)
\* A sort that turns the order of rules with equal keys around.
SortUnstable(rules) ==
    IF rules = <<>> THEN <<>>
    ELSE InsertBeforeEquals(SortUnstable(SubSeq(rules, 1, Len(rules) - 1)),
                            rules[Len(rules)])

RECURSIVE SortByPriority(_)
\* sorted(rules, key=...): a stable sort, rules with equal keys keep their
\* declared order.
SortByPriority(rules) ==
    IF rules = <<>> THEN <<>>
    ELSE InsertAfterEquals(SortByPriority(SubSeq(rules, 1, Len(rules) - 1)),
                           rules[Len(rules)])

\* A domain that takes a table of its databases only when a pattern matches.
DomainAssignsOnPatternMatch(rule, database, table) ==
    IF rule.database_affinity = {}
    THEN \E i \in 1..Len(rule.patterns) : DomainPatternMatches(rule.patterns[i], table)
    ELSE /\ database \in rule.database_affinity
         /\ \/ rule.patterns = <<>>
            \/ \E i \in 1..Len(rule.patterns) :
                  DomainPatternMatches(rule.patterns[i], table)

\* Whether classify's loop returns the id of this domain for the table.
DomainAssigns(rule, database, table) ==
    IF rule.database_affinity = {}
    THEN \E i \in 1..Len(rule.patterns) : DomainPatternMatches(rule.patterns[i], table)
    ELSE IF database \in rule.database_affinity
    THEN \/ /\ rule.patterns # <<>>
            /\ \E i \in 1..Len(rule.patterns) :
                  DomainPatternMatches(rule.patterns[i], table)
         \/ TRUE
    ELSE FALSE

RECURSIVE ClassifyFromFallbackInOrder(_, _, _, _, _)
\* A loop that returns the fallback rule's id where the rule stands in the
\* sorted order.
ClassifyFromFallbackInOrder(rs, i, fallback, takes, sentinel) ==
    IF i > Len(rs) THEN sentinel
    ELSE IF rs[i].is_fallback \/ takes[i] THEN rs[i].id
    ELSE ClassifyFromFallbackInOrder(rs, i + 1, fallback, takes, sentinel)

RECURSIVE ClassifyFrom(_, _, _, _, _)
\* The loop of both classify methods over the sorted rules, from rule i on:
\* a fallback rule is remembered and passed over, the first other rule that
\* takes the arguments gives its id, and after the last rule the fallback or
\* the sentinel is returned. takes[i] tells whether rule i takes them.
ClassifyFrom(rs, i, fallback, takes, sentinel) ==
    IF i > Len(rs) THEN (IF fallback # NoFallback THEN fallback ELSE sentinel)
    ELSE IF rs[i].is_fallback
         THEN ClassifyFrom(rs, i + 1, rs[i].id, takes, sentinel)
         ELSE IF takes[i] THEN rs[i].id
         ELSE ClassifyFrom(rs, i + 1, fallback, takes, sentinel)

\* DomainClassifier.classify
ClassifyDomain(rs, a) ==
    ClassifyFrom(rs, 1, NoFallback,
                 [i \in 1..Len(rs) |-> DomainAssigns(rs[i], a.database, a.name)],
                 "UncategorizedDomain")

\* A role whose data types are compared as they are written.
RoleTakesCaseSensitive(rule, a) ==
    /\ ~("is_primary_key" \in rule.conditions /\ ~a.is_pk)
    /\ ~("is_foreign_key" \in rule.conditions /\ ~a.is_fk)
    /\ \E i \in 1..Len(rule.patterns) : RolePatternMatches(rule.patterns[i], a.name)
    /\ \/ rule.data_types = {}
       \/ a.data_type \in rule.data_types

\* Whether classify's loop returns the id of this role for the column: the
\* conditions, then the name patterns, then the data types.
RoleTakes(rule, a) ==
    /\ ~("is_primary_key" \in rule.conditions /\ ~a.is_pk)
    /\ ~("is_foreign_key" \in rule.conditions /\ ~a.is_fk)
    /\ \E i \in 1..Len(rule.patterns) : RolePatternMatches(rule.patterns[i], a.name)
    /\ \/ rule.data_types = {}
       \/ Lower(a.data_type) \in {Lower(t) : t \in rule.data_types}

\* SemanticRoleClassifier.classify
ClassifyRole(rs, a) ==
    ClassifyFrom(rs, 1, NoFallback,
                 [i \in 1..Len(rs) |-> RoleTakes(rs[i], a)], "Unclassified")

ClassifyInit ==
    /\ classifier \in {"domain", "role"}
    /\ config \in RuleLists(IF classifier = "domain" THEN DomainRules ELSE RoleRules)
    /\ selfRules = <<>>
    /\ cpc = "new"
    /\ args = NoArgs
    /\ classified = ""

\* No classifier.
NoClassifier ==
    /\ classifier = "domain"
    /\ config = <<>>
    /\ selfRules = <<>>
    /\ cpc = "off"
    /\ args = NoArgs
    /\ classified = ""

\* __init__ of either classifier: the rules are taken from the configuration
\* and sorted.
ClassifierNew ==
    /\ cpc = "new"
    /\ selfRules' = SortByPriority(config)
    /\ cpc' = "ready"
    /\ UNCHANGED <<classifier, config, args, classified>>
    /\ UNCHANGED otherThanClassifyVars

DomainClassify(a) ==
    /\ cpc = "ready"
    /\ classifier = "domain"
    /\ args' = a
    /\ classified' = ClassifyDomain(selfRules, a)
    /\ UNCHANGED <<classifier, config, selfRules, cpc>>
    /\ UNCHANGED otherThanClassifyVars

RoleClassify(a) ==
    /\ cpc = "ready"
    /\ classifier = "role"
    /\ args' = a
    /\ classified' = ClassifyRole(selfRules, a)
    /\ UNCHANGED <<classifier, config, selfRules, cpc>>
    /\ UNCHANGED otherThanClassifyVars

\* A classifier is built and then asked
ClassifyNext ==
    \/ ClassifierNew
    \/ \E a \in DomainArgs : DomainClassify(a)
    \/ \E a \in RoleArgs : RoleClassify(a)

\* ------------------------------------------------------------ search_catalog
MaxKeywords == 2
MaxTopN == 2
\* The weights of a keyword found in the table, column and database name,
\* and the bonus of a primary and of a foreign key.
TABLE_WEIGHT == 3
COLUMN_WEIGHT == 2
DATABASE_WEIGHT == 1
PK_BONUS == 2
FK_BONUS == 1

CatalogRow(database, table, column, isPk, isFk, rowCount) ==
    [database |-> database, table_name |-> table, column_name |-> column,
     is_primary_key |-> isPk, is_foreign_key |-> isFk,
     row_count_estimate |-> rowCount]

\* The rows a searched catalog is made of.
SearchRows ==
    { CatalogRow(<<"o", "m", "s">>, NameOrd, <<"I", "d">>, TRUE, FALSE, 10),
      CatalogRow(<<"o", "m", "s">>, NameOrd, NameAmt, FALSE, FALSE, 10),
      CatalogRow(<<"c", "r", "m">>, NameCust, NameOrdId, FALSE, TRUE, 5),
      CatalogRow(<<"c", "r", "m">>, NameCust, <<"I", "d">>, TRUE, FALSE, 5) }

\* The keywords a caller may give.
SearchKeywords ==
    { <<"o", "r", "d">>, <<" ", "O", "r", "d">>, <<"c", ".", "m">>,
      <<"i", "d">>, <<>> }

\* str.contains(kw): kw is read as a regular expression and searched for in
\* the text; a "." of kw stands for any one character, a letter for itself.
RegexContains(text, kw) ==
    \E i \in 1..(Len(text) - Len(kw) + 1) :
        \A k \in 1..Len(kw) : kw[k] = "." \/ kw[k] = text[i + k - 1]

\* [k.lower().strip() for k in keywords]; the server leaves out the keywords
\* that are empty once stripped.
NormalizeKeywords(impl, keywords) ==
    LET stripped == [i \in 1..Len(keywords) |-> Strip(Lower(keywords[i]))]
    IN  IF impl = "server" THEN SelectSeq(stripped, LAMBDA k : k # <<>>)
        ELSE stripped

RECURSIVE KeywordScore(_, _)
\* table_match + column_match + db_match, built up keyword by keyword
KeywordScore(row, kws) ==
    IF kws = <<>> THEN 0
    ELSE KeywordScore(row, SubSeq(kws, 1, Len(kws) - 1))
         + (IF RegexContains(Lower(row.table_name), kws[Len(kws)])
            THEN TABLE_WEIGHT ELSE 0)
         + (IF RegexContains(Lower(row.column_name), kws[Len(kws)])
            THEN COLUMN_WEIGHT ELSE 0)
         + (IF RegexContains(Lower(row.database), kws[Len(kws)])
            THEN DATABASE_WEIGHT ELSE 0)

Relevance(row, kws) ==
    KeywordScore(row, kws)
    + (IF row.is_primary_key THEN PK_BONUS ELSE 0)
    + (IF row.is_foreign_key THEN FK_BONUS ELSE 0)

\* sort(["relevance", "row_count_estimate"], descending): a comes before b
RanksBefore(a, b, kws) ==
    \/ Relevance(a, kws) > Relevance(b, kws)
    \/ /\ Relevance(a, kws) = Relevance(b, kws)
       /\ a.row_count_estimate > b.row_count_estimate

\* The orders sort may give the rows: rows that agree in both keys come in
\* any order.
Sorted(rows, kws) ==
    {f \in [1..Cardinality(rows) -> rows] :
        /\ \A i, j \in DOMAIN f : f[i] = f[j] => i = j
        /\ \A i, j \in DOMAIN f : i < j => ~RanksBefore(f[j], f[i], kws)}

NoSearch == [tool |-> "", keywords |-> <<>>, top_n |-> 0]

SearchInit ==
    /\ searchDf \in SUBSET SearchRows
    /\ searchCall = NoSearch
    /\ searchOut = <<>>

NoSearchCatalog ==
    /\ searchDf = {}
    /\ searchCall = NoSearch
    /\ searchOut = <<>>

\* search_catalog of the server and of catalog_query: the keywords are
\* normalized (the server returns no match when none is left), the rows are
\* scored, the rows with a keyword score above 0 are sorted, and the first
\* top_n are returned.  One call is followed from its arguments to its result.
SearchCatalogRank(impl, keywords, topN) ==
    /\ searchCall = NoSearch
    /\ searchCall' = [tool |-> impl, keywords |-> keywords, top_n |-> topN]
    /\ LET kws == NormalizeKeywords(impl, keywords)
       IN  IF impl = "server" /\ kws = <<>>
           THEN searchOut' = <<>>
           ELSE \E order \in Sorted({r \in searchDf : KeywordScore(r, kws) > 0}, kws) :
                   searchOut' = [i \in 1..Min(topN, Len(order)) |->
                                   [row |-> order[i],
                                    relevance |-> Relevance(order[i], kws)]]
    /\ UNCHANGED searchDf
    /\ UNCHANGED otherThanSearchVars

KeywordLists ==
    UNION {[1..n -> SearchKeywords] : n \in 0..MaxKeywords}

SearchNext ==
    \E impl \in {"server", "catalog_query"}, keywords \in KeywordLists,
       topN \in 0..MaxTopN :
        SearchCatalogRank(impl, keywords, topN)

\* ------------------------------------------------------------ _build_entities
MaxColumns == 10
\* Null rates are counted in hundredths: 0.5 is 50.
HIGH_NULL_RATE == 50
\* The share of columns, in tenths, above which a table needs review (0.3).
REVIEW_SHARE == 3
\* The catalog row has no null_rate column.
NoNullRate == -1

ColRow(role, nullRate) == [semantic_role |-> role, null_rate |-> nullRate]

\* The kinds of catalog rows a table is made of: the role is what
\* role_classifier.classify gives the column.
ColRows ==
    << ColRow("Identifier", NoNullRate), ColRow("Identifier", 50),
       ColRow("Identifier", 51), ColRow("Unclassified", 0) >>

RECURSIVE Repeat(_, _)
Repeat(x, n) == IF n = 0 THEN <<>> ELSE <<x>> \o Repeat(x, n - 1)

\* The rows of one table: so many of each kind, between 1 and MaxColumns in all.
Tables ==
    { Repeat(ColRows[1], c[1]) \o Repeat(ColRows[2], c[2])
        \o Repeat(ColRows[3], c[3]) \o Repeat(ColRows[4], c[4]) :
      c \in {d \in [1..4 -> 0..MaxColumns] :
                d[1] + d[2] + d[3] + d[4] \in 1..MaxColumns} }

\* col_row.get("null_rate", 0)
NullRateOf(colRow) ==
    IF colRow.null_rate = NoNullRate THEN 0 ELSE colRow.null_rate

\* The review reasons and status of a column node.
ColumnReasons(colRow) ==
    (IF colRow.semantic_role = "Unclassified" THEN <<"unclassified_role">> ELSE <<>>)
    \o (IF NullRateOf(colRow) > HIGH_NULL_RATE THEN <<"high_null_rate">> ELSE <<>>)

ColNode(colRow) ==
    [semanticRole |-> colRow.semantic_role,
     reviewStatus |-> IF ColumnReasons(colRow) # <<>>
                      THEN "needs_review" ELSE "auto_classified",
     reviewReasons |-> ColumnReasons(colRow)]

\* cols_needing_review > len(columns) * 0.3, in tenths
ManyColumnsNeedReviewInclusive(needing, columnCount) ==
    needing * 10 >= columnCount * REVIEW_SHARE
ManyColumnsNeedReview(needing, columnCount) ==
    needing * 10 > columnCount * REVIEW_SHARE

NoEntity == [belongsToDomain |-> "", columnCount |-> 0,
             columnsNeedingReview |-> 0, hasColumn |-> <<>>,
             reviewStatus |-> "", reviewReasons |-> <<>>]

OntologyInit ==
    /\ tableCols \in Tables
    /\ entity = NoEntity

NoOntology ==
    /\ tableCols = <<>>
    /\ entity = NoEntity

\* The body of the loop of _build_entities for one table whose domain the
\* domain classifier gives as domainId.
BuildEntity(domainId) ==
    /\ entity = NoEntity
    /\ LET columns == [i \in 1..Len(tableCols) |-> ColNode(tableCols[i])]
           needing == Cardinality({i \in DOMAIN columns :
                                      columns[i].reviewStatus = "needs_review"})
           reasons ==
               (IF domainId = "UncategorizedDomain"
                THEN <<"unclassified_domain">> ELSE <<>>)
               \o (IF ManyColumnsNeedReview(needing, Len(columns))
                   THEN <<"many_unclassified_columns">> ELSE <<>>)
       IN  entity' = [belongsToDomain |-> domainId,
                      columnCount |-> Len(columns),
                      columnsNeedingReview |-> needing,
                      hasColumn |-> columns,
                      reviewStatus |-> IF reasons # <<>>
                                       THEN "needs_review" ELSE "auto_classified",
                      reviewReasons |-> reasons]
    /\ UNCHANGED tableCols
    /\ UNCHANGED otherThanOntologyVars

OntologyNext ==
    \E domainId \in {"SalesDomain", "UncategorizedDomain"} : BuildEntity(domainId)

\* ------------------------------------------------------ apply_review_feedback
MaxDays == 2
MaxApplications == 2

\* The rows of the reviewed workbook that carry feedback, one kind per sheet.
MetricFeedback ==
    [sheet |-> "metricCorrections", column |-> "Amt", text |-> "Revenue"]
RelationshipFeedback ==
    [sheet |-> "relationshipFlags", column |-> "Ord", text |-> "no"]
ActiveFeedback ==
    [sheet |-> "filterMeanings", column |-> "Status", text |-> "Active"]
OpenFeedback ==
    [sheet |-> "filterMeanings", column |-> "Status", text |-> "Open"]

NoFeedback ==
    [metricCorrections |-> <<>>, relationshipFlags |-> <<>>, filterMeanings |-> <<>>]

\* What read_excel_feedback may return.
Feedbacks ==
    [metricCorrections : {<<>>, <<MetricFeedback>>},
     relationshipFlags : {<<>>, <<RelationshipFeedback>>},
     filterMeanings : {<<>>, <<ActiveFeedback>>, <<OpenFeedback>>,
                       <<ActiveFeedback, OpenFeedback>>}]

TotalFeedback(feedback) ==
    Len(feedback.metricCorrections) + Len(feedback.relationshipFlags)
    + Len(feedback.filterMeanings)

OntologyColumns == {"Amt", "Status"}

NoReviewFile == [exists |-> FALSE, reviewedBy |-> "", feedback |-> NoFeedback]
NoOntologyDoc ==
    [exists |-> FALSE,
     columns |-> [c \in OntologyColumns |->
                     [businessTerms |-> <<>>, businessMeaning |-> ""]]]
NoAnalysisDoc ==
    [exists |-> FALSE, hasReviewFeedback |-> FALSE, reviewFeedback |-> NoFeedback]

ReviewInit ==
    /\ today = 1
    /\ reviewFiles = [d \in 1..MaxDays |-> NoReviewFile]
    /\ ontologyDoc \in {NoOntologyDoc, [NoOntologyDoc EXCEPT !.exists = TRUE]}
    /\ analysisDoc \in {NoAnalysisDoc, [NoAnalysisDoc EXCEPT !.exists = TRUE]}
    /\ applications = 0

NoReview ==
    /\ today = 1
    /\ reviewFiles = [d \in 1..MaxDays |-> NoReviewFile]
    /\ ontologyDoc = NoOntologyDoc
    /\ analysisDoc = NoAnalysisDoc
    /\ applications = 0

\* save_feedback_json: the file is named after the date alone and opened
\* with "w": whatever it held is replaced.
SaveFeedbackJson(feedback, reviewer) ==
    [reviewFiles EXCEPT ![today] =
        [exists |-> TRUE, reviewedBy |-> reviewer, feedback |-> feedback]]

\* metric_map and filter_map: the last item for a column wins.
LastFor(items, column) ==
    LET hits == SelectSeq(items, LAMBDA it : it.column = column)
    IN  IF hits = <<>> THEN "" ELSE hits[Len(hits)].text

\* apply_to_ontology
ApplyToOntology(feedback) ==
    IF ~ontologyDoc.exists THEN ontologyDoc
    ELSE [ontologyDoc EXCEPT !.columns =
            [c \in OntologyColumns |->
                LET term == LastFor(feedback.metricCorrections, c)
                    meaning == LastFor(feedback.filterMeanings, c)
                    terms == @[c].businessTerms
                IN  [businessTerms |->
                         IF term # "" /\ \A i \in DOMAIN terms : terms[i] # term
                         THEN Append(terms, term) ELSE terms,
                     businessMeaning |->
                         IF meaning # "" THEN meaning ELSE @[c].businessMeaning]]]

\* apply_to_procedure_analysis
ApplyToProcedureAnalysis(feedback) ==
    IF ~analysisDoc.exists THEN analysisDoc
    ELSE [exists |-> TRUE, hasReviewFeedback |-> TRUE,
          reviewFeedback |->
             [metricCorrections |->
                  analysisDoc.reviewFeedback.metricCorrections
                      \o feedback.metricCorrections,
              relationshipFlags |->
                  analysisDoc.reviewFeedback.relationshipFlags
                      \o feedback.relationshipFlags,
              filterMeanings |->
                  analysisDoc.reviewFeedback.filterMeanings
                      \o feedback.filterMeanings]]

\* main, without --dry-run, on a workbook that carries feedback
ApplyReviewFeedback(feedback, reviewer) ==
    /\ applications < MaxApplications
    /\ TotalFeedback(feedback) > 0
    /\ reviewFiles' = SaveFeedbackJson(feedback, reviewer)
    /\ ontologyDoc' = ApplyToOntology(feedback)
    /\ analysisDoc' = ApplyToProcedureAnalysis(feedback)
    /\ applications' = applications + 1
    /\ UNCHANGED today
    /\ UNCHANGED otherThanReviewVars

\* Midnight passes.
NextDay ==
    /\ today < MaxDays
    /\ today' = today + 1
    /\ UNCHANGED <<reviewFiles, ontologyDoc, analysisDoc, applications>>
    /\ UNCHANGED otherThanReviewVars

ReviewNext ==
    \/ \E feedback \in Feedbacks, reviewer \in {"", "Jane"} :
          ApplyReviewFeedback(feedback, reviewer)
    \/ NextDay

\* ---------------------------------------------------------- get_catalog_status
\* The clock runs to MaxClock; it counts half days.
MaxClock == 16
PerDay == 2
STALE_DAYS == 7
\* age_days of None
NoAge == -1

NoStatus == [status |-> "", age_days |-> NoAge]

\* The catalog directories: with or without metadata.parquet, with or without
\* last_scan.json, whose last_updated is early, a day later or still to come.
StatusDirs ==
    [metadata : BOOLEAN, scan : {FALSE}, last_updated : {0}]
    \cup [metadata : BOOLEAN, scan : {TRUE}, last_updated : {0, PerDay, MaxClock}]

StatusInit ==
    /\ now = 0
    /\ statusDir \in StatusDirs
    /\ statusOut = NoStatus

NoStatusCall ==
    /\ now = 0
    /\ statusDir = [metadata |-> FALSE, scan |-> FALSE, last_updated |-> 0]
    /\ statusOut = NoStatus

\* (datetime.now() - last_updated).days: the whole days, rounded down
AgeDays(lastUpdated) == (now - lastUpdated) \div PerDay

\* age_days < 7
IsFreshInclusive(ageDays) == ageDays <= STALE_DAYS
IsFresh(ageDays) == ageDays < STALE_DAYS

GetCatalogStatus ==
    /\ statusOut = NoStatus
    /\ statusOut' =
          IF ~statusDir.metadata
          THEN [status |-> "NOT_BUILT", age_days |-> NoAge]
          ELSE IF statusDir.scan
               THEN [status |-> IF IsFresh(AgeDays(statusDir.last_updated))
                                THEN "OK" ELSE "STALE",
                     age_days |-> AgeDays(statusDir.last_updated)]
               ELSE [status |-> "UNKNOWN", age_days |-> NoAge]
    /\ UNCHANGED <<now, statusDir>>
    /\ UNCHANGED otherThanStatusVars

\* Half a day passes; the caller has taken the answer.
HalfDayPasses ==
    /\ now < MaxClock
    /\ now' = now + 1
    /\ statusOut' = NoStatus
    /\ UNCHANGED statusDir
    /\ UNCHANGED otherThanStatusVars

StatusNext == GetCatalogStatus \/ HalfDayPasses

\* --------------------------------------------- two refreshes, one catalog
\* The frame scan_target gave the run of a target.
NewRows(target) == {Row(target, "db1", "new", "metadata")}

NoScanInfo == [t \in Targets |-> -1]

WritersInit ==
    /\ sharedCatalog \in InitCatalogs
    /\ sharedScan = [t \in Targets |->
                       IF RowsOf(sharedCatalog.rows, t) = {} THEN -1
                       ELSE Cardinality(RowsOf(sharedCatalog.rows, t))]
    /\ wpc = [t \in Targets |-> "read"]
    /\ wresult = [t \in Targets |-> NoCatalog]
    /\ wscan = [t \in Targets |-> NoScanInfo]

NoWriters ==
    /\ sharedCatalog = NoCatalog
    /\ sharedScan = NoScanInfo
    /\ wpc = [t \in Targets |-> "done"]
    /\ wresult = [t \in Targets |-> NoCatalog]
    /\ wscan = [t \in Targets |-> NoScanInfo]

\* write_global_catalog up to write_parquet: the existing catalog is read,
\* the rows of the target are dropped and the new frame is concatenated; a
\* file another run is writing, or one of other columns, makes the run fail.
WriteGlobalCatalogRead(t) ==
    /\ wpc[t] = "read"
    /\ IF sharedCatalog.kind = "missing"
       THEN /\ wresult' = [wresult EXCEPT ![t] = Catalog("metadata", NewRows(t))]
            /\ wpc' = [wpc EXCEPT ![t] = "write"]
       ELSE IF sharedCatalog.kind = "partial" \/ sharedCatalog.schema # "metadata"
       THEN /\ wpc' = [wpc EXCEPT ![t] = "failed"]
            /\ UNCHANGED wresult
       ELSE /\ wresult' = [wresult EXCEPT ![t] =
                             Catalog("metadata",
                                     {r \in sharedCatalog.rows : r.target # t}
                                     \cup NewRows(t))]
            /\ wpc' = [wpc EXCEPT ![t] = "write"]
    /\ UNCHANGED <<sharedCatalog, sharedScan, wscan>>
    /\ UNCHANGED otherThanWritersVars

\* result.write_parquet(METADATA_PATH) opens the file and starts to write.
WriteParquetStart(t) ==
    /\ wpc[t] = "write"
    /\ sharedCatalog' = PartialCatalog
    /\ wpc' = [wpc EXCEPT ![t] = "writing"]
    /\ UNCHANGED <<sharedScan, wresult, wscan>>
    /\ UNCHANGED otherThanWritersVars

\* write_parquet ends.  While the other run writes the same file too, the
\* file holds this run's table or is unreadable.
WriteParquetFinish(t, mixed) ==
    /\ wpc[t] = "writing"
    /\ mixed => \E u \in Targets \ {t} : wpc[u] = "writing"
    /\ sharedCatalog' = IF mixed THEN PartialCatalog ELSE wresult[t]
    /\ wpc' = [wpc EXCEPT ![t] = "scan"]
    /\ UNCHANGED <<sharedScan, wresult, wscan>>
    /\ UNCHANGED otherThanWritersVars

\* update_scan_metadata: last_scan.json is loaded
UpdateScanMetadataLoad(t) ==
    /\ wpc[t] = "scan"
    /\ wscan' = [wscan EXCEPT ![t] = sharedScan]
    /\ wpc' = [wpc EXCEPT ![t] = "dump"]
    /\ UNCHANGED <<sharedCatalog, sharedScan, wresult>>
    /\ UNCHANGED otherThanWritersVars

\* update_scan_metadata: the entry of the target is set and the file written
UpdateScanMetadataDump(t) ==
    /\ wpc[t] = "dump"
    /\ sharedScan' = [wscan[t] EXCEPT ![t] = Cardinality(NewRows(t))]
    /\ wpc' = [wpc EXCEPT ![t] = "done"]
    /\ UNCHANGED <<sharedCatalog, wresult, wscan>>
    /\ UNCHANGED otherThanWritersVars

WritersNext ==
    \E t \in Targets :
        \/ WriteGlobalCatalogRead(t)
        \/ WriteParquetStart(t)
        \/ \E mixed \in BOOLEAN : WriteParquetFinish(t, mixed)
        \/ UpdateScanMetadataLoad(t)
        \/ UpdateScanMetadataDump(t)

\* ------------------------------------------------- _extract_filter_conditions
\* A WHERE condition is the sequence of its nodes in prefix order: an AND or
\* OR node is followed by its left and then its right operand.
MaxLeaves == 3
MaxInValues == 6
\* _add_in_filter describes the first 5 values
IN_LIMIT == 5
\* _get_value_pattern keeps the first 50 characters
VALUE_LIMIT == 50

\* The value nodes of a comparison.
Literal(text) == [kind |-> "Literal", this |-> text]
Parameter(name) == [kind |-> "Parameter", this |-> name]
NullValue == [kind |-> "Null", this |-> <<>>]
ValueNodes == {Literal(<<"1">>), Parameter(<<"p">>), NullValue}

\* _get_value_pattern
GetValuePattern(node) ==
    CASE node.kind = "Literal" ->
            SubSeq(node.this, 1, Min(Len(node.this), VALUE_LIMIT))
      [] node.kind = "Parameter" -> <<"@">> \o node.this
      [] node.kind = "Null" -> <<"N", "U", "L", "L">>
      [] OTHER -> SubSeq(node.this, 1, Min(Len(node.this), VALUE_LIMIT))

\* A node of a condition.  column is what _get_column_name gives for the left
\* side ("" when it gives nothing), values are the nodes of the right side,
\* raises tells that handling the node raises.
Leaf(shape, column, values, raises) ==
    [kind |-> "leaf", shape |-> shape, column |-> column, values |-> values,
     raises |-> raises]
Connective(kind) ==
    [kind |-> kind, shape |-> kind, column |-> "", values |-> <<>>,
     raises |-> FALSE]

\* The comparisons of the isinstance chain and the operator each is given.
ComparisonOperator(shape) ==
    CASE shape = "EQ" -> "="
      [] shape = "NEQ" -> "!="
      [] shape = "GT" -> ">"
      [] shape = "GTE" -> ">="
      [] shape = "LT" -> "<"
      [] shape = "LTE" -> "<="
      [] shape = "Like" -> "LIKE"
      [] OTHER -> ""

Filter(column, operator, valuePattern) ==
    [column |-> column, operator |-> operator, value_pattern |-> valuePattern]

\* _add_filter
AddFilter(condition, operator) ==
    IF condition.column = "" THEN <<>>
    ELSE <<Filter(condition.column, operator, GetValuePattern(condition.values[1]))>>

RECURSIVE Join(_, _)
\* sep.join(parts)
Join(parts, sep) ==
    IF parts = <<>> THEN <<>>
    ELSE IF Len(parts) = 1 THEN parts[1]
    ELSE parts[1] \o sep \o Join(Tail(parts), sep)

Ellipsis == <<".", ".", ".">>
Subquery == <<"(", "s", "u", "b", "q", "u", "e", "r", "y", ")">>

\* _add_in_filter with the marker from the fifth value on
AddInFilterMarkerAtLimit(condition) ==
    IF condition.column = "" THEN <<>>
    ELSE LET expressions == condition.values
             first == SubSeq(expressions, 1, Min(Len(expressions), IN_LIMIT))
             values == [i \in DOMAIN first |-> GetValuePattern(first[i])]
                       \o (IF Len(expressions) >= IN_LIMIT
                           THEN <<Ellipsis>> ELSE <<>>)
         IN  <<Filter(condition.column, "IN",
                      IF expressions # <<>>
                      THEN <<"(">> \o Join(values, <<",", " ">>) \o <<")">>
                      ELSE Subquery)>>
\* _add_in_filter
AddInFilter(condition) ==
    IF condition.column = "" THEN <<>>
    ELSE LET expressions == condition.values
             first == SubSeq(expressions, 1, Min(Len(expressions), IN_LIMIT))
             values == [i \in DOMAIN first |-> GetValuePattern(first[i])]
                       \o (IF Len(expressions) > IN_LIMIT
                           THEN <<Ellipsis>> ELSE <<>>)
         IN  <<Filter(condition.column, "IN",
                      IF expressions # <<>>
                      THEN <<"(">> \o Join(values, <<",", " ">>) \o <<")">>
                      ELSE Subquery)>>

\* _add_between_filter
AddBetweenFilter(condition) ==
    IF condition.column = "" THEN <<>>
    ELSE <<Filter(condition.column, "BETWEEN",
                  GetValuePattern(condition.values[1])
                  \o <<" ", "A", "N", "D", " ">>
                  \o GetValuePattern(condition.values[2]))>>

\* _add_is_filter
AddIsFilter(condition) ==
    IF condition.column = "" THEN <<>>
    ELSE IF condition.values[1].kind = "Null"
    THEN <<Filter(condition.column, "IS NULL", <<"N", "U", "L", "L">>)>>
    ELSE <<Filter(condition.column, "IS", condition.values[1].this)>>

\* The isinstance chain for a node that is no AND and no OR, inside its try:
\* a node that raises adds nothing, and a node of no listed class is skipped.
LeafFiltersKeepingUnnamed(condition) ==
    IF condition.raises THEN <<>>
    ELSE IF ComparisonOperator(condition.shape) # ""
    THEN <<Filter(condition.column, ComparisonOperator(condition.shape),
                  GetValuePattern(condition.values[1]))>>
    ELSE IF condition.shape = "In" THEN AddInFilter(condition)
    ELSE IF condition.shape = "Between" THEN AddBetweenFilter(condition)
    ELSE IF condition.shape = "Is" THEN AddIsFilter(condition)
    ELSE <<>>
LeafFilters(condition) ==
    IF condition.raises THEN <<>>
    ELSE IF ComparisonOperator(condition.shape) # ""
    THEN AddFilter(condition, ComparisonOperator(condition.shape))
    ELSE IF condition.shape = "In" THEN AddInFilter(condition)
    ELSE IF condition.shape = "Between" THEN AddBetweenFilter(condition)
    ELSE IF condition.shape = "Is" THEN AddIsFilter(condition)
    ELSE <<>>

RECURSIVE ExtractFilterConditions(_, _)
\* _extract_filter_conditions on the node at position i: the filters it
\* appends and the position after the node's subtree.
ExtractFilterConditions(nodes, i) ==
    IF nodes[i].kind \in {"And", "Or"}
    THEN LET this == ExtractFilterConditions(nodes, i + 1)
             expression == ExtractFilterConditions(nodes, this.next)
         IN  [filters |-> this.filters \o expression.filters,
              next |-> expression.next]
    ELSE [filters |-> LeafFilters(nodes[i]), next |-> i + 1]

\* The leaves a condition is built from: comparisons with a column, one
\* whose left side gives no name, one that raises, an IN list, a BETWEEN, an
\* IS NULL, and a node of a class the chain does not list (a NOT).
ConditionLeaves ==
    { Leaf("EQ", "a", <<Literal(<<"1">>)>>, FALSE),
      Leaf("EQ", "", <<Literal(<<"1">>)>>, FALSE),
      Leaf("GT", "b", <<Parameter(<<"p">>)>>, TRUE),
      Leaf("In", "c", <<Literal(<<"1">>), NullValue>>, FALSE),
      Leaf("Between", "d", <<Literal(<<"1">>), Parameter(<<"p">>)>>, FALSE),
      Leaf("Is", "e", <<NullValue>>, FALSE),
      Leaf("Not", "f", <<>>, FALSE) }

\* The shapes of a condition of n leaves: in prefix order, TRUE where a
\* connective stands; before the last node the connectives seen outnumber
\* the leaves seen or equal them.
Skeletons(n) ==
    {b \in [1..(2 * n - 1) -> BOOLEAN] :
        /\ Cardinality({i \in DOMAIN b : b[i]}) = n - 1
        /\ \A k \in 1..(2 * n - 2) :
              Cardinality({i \in 1..k : ~b[i]}) <= Cardinality({i \in 1..k : b[i]})}

\* The condition of a shape, its connectives and its leaves.
Condition(skeleton, ops, leaves) ==
    [i \in DOMAIN skeleton |->
        IF skeleton[i]
        THEN Connective(ops[Cardinality({j \in 1..i : skeleton[j]})])
        ELSE leaves[Cardinality({j \in 1..i : ~skeleton[j]})]]

\* The conditions of n leaves.
Conditions(n) ==
    {Condition(skeleton, ops, leaves) :
        skeleton \in Skeletons(n),
        ops \in [1..(n - 1) -> {"And", "Or"}],
        leaves \in [1..n -> ConditionLeaves]}

\* The IN conditions _add_in_filter is handed: without a list, or with a list
\* of up to MaxInValues values.
InConditions ==
    { Leaf("In", column, values, FALSE) :
        column \in {"c", ""},
        values \in UNION {[1..n -> ValueNodes] : n \in 0..MaxInValues} }

NoExtraction == [of |-> "", input |-> <<>>, output |-> <<>>]

ExtractInit == extraction = NoExtraction

\* _extract_filter_conditions on the condition of a WHERE clause
ExtractFilterConditionsCall(where) ==
    /\ extraction = NoExtraction
    /\ extraction' = [of |-> "where", input |-> where,
                      output |-> ExtractFilterConditions(where, 1).filters]
    /\ UNCHANGED otherThanExtractVars

\* _add_in_filter on one IN condition
AddInFilterCall(condition) ==
    /\ extraction = NoExtraction
    /\ extraction' = [of |-> "in", input |-> <<condition>>,
                      output |-> AddInFilter(condition)]
    /\ UNCHANGED otherThanExtractVars

\* ---- _extract_metrics (procedure_parser.py 387-457)
\* A statement is the sequence of its nodes in prefix order; a node carries
\* its class, the size of its subtree and, for a column or an alias, its
\* name. The SQL text of a node is a sequence of characters.
MaxNodes == 6
\* formula[:500]
FORMULA_LIMIT == 500

Column(name) == <<[kind |-> "Column", size |-> 1, name |-> name]>>
Unary(kind, this) ==
    <<[kind |-> kind, size |-> 1 + Len(this), name |-> <<>>]>> \o this
Alias(this, alias) ==
    <<[kind |-> "Alias", size |-> 1 + Len(this), name |-> alias]>> \o this
Binary(kind, this, expression) ==
    <<[kind |-> kind, size |-> 1 + Len(this) + Len(expression), name |-> <<>>]>>
        \o this \o expression

\* The first and the second child of the node at position i
This(nodes, i) == i + 1
Expression(nodes, i) == i + 1 + nodes[i + 1].size

\* The positions of the subtree of the node at position i
Subtree(nodes, i) == i..(i + nodes[i].size - 1)

\* node.parent: the position of the nearest enclosing node, 0 at the root
Parent(nodes, i) ==
    LET above == {j \in 1..(i - 1) : i \in Subtree(nodes, j)}
    IN  IF above = {} THEN 0 ELSE CHOOSE j \in above : \A k \in above : k <= j

\* The number of nodes that enclose the node at position i
Depth(nodes, i) == Cardinality({j \in 1..(i - 1) : i \in Subtree(nodes, j)})

FunctionName(kind) ==
    IF kind = "Sum" THEN <<"S", "U", "M">>
    ELSE IF kind = "Count" THEN <<"C", "O", "U", "N", "T">>
    ELSE <<"A", "V", "G">>

RECURSIVE NodeSql(_, _)
\* node.sql(dialect="tsql") of the node at position i
NodeSql(nodes, i) ==
    LET node == nodes[i]
    IN  IF node.kind = "Column" THEN node.name
        ELSE IF node.kind = "Div"
        THEN NodeSql(nodes, This(nodes, i)) \o <<" ", "/", " ">>
                \o NodeSql(nodes, Expression(nodes, i))
        ELSE IF node.kind = "Case"
        THEN <<"C", "A", "S", "E", " ", "W", "H", "E", "N", " ">>
                \o NodeSql(nodes, This(nodes, i))
                \o <<" ", "T", "H", "E", "N", " ">>
                \o NodeSql(nodes, Expression(nodes, i))
                \o <<" ", "E", "N", "D">>
        ELSE IF node.kind = "Alias"
        THEN NodeSql(nodes, This(nodes, i)) \o <<" ", "A", "S", " ">> \o node.name
        ELSE FunctionName(node.kind) \o <<"(">> \o NodeSql(nodes, This(nodes, i))
                \o <<")">>

RECURSIVE ByLevel(_, _, _)
\* The positions found, level after level from depth d on
ByLevel(nodes, found, d) ==
    IF d > Len(nodes) THEN <<>>
    ELSE SelectSeq(found, LAMBDA i : Depth(nodes, i) = d)
            \o ByLevel(nodes, found, d + 1)

\* node.find_all(kinds) from the node at position i: the node itself and
\* the nodes below it that are of one of the classes, breadth first
FindAll(nodes, i, kinds) ==
    LET found == SelectSeq([k \in 1..nodes[i].size |-> i + k - 1],
                           LAMBDA j : nodes[j].kind \in kinds)
    IN  ByLevel(nodes, found, 0)

AggregateKinds == {"Sum", "Count", "Avg"}

HasAggSumOnly(nodes, i) == FindAll(nodes, i, {"Sum"}) # <<>>

\* case.find(Sum), case.find(Count) or case.find(Avg) finds a node
HasAgg(nodes, i) == FindAll(nodes, i, AggregateKinds) # <<>>

NoName == <<>>

\* formula[:500]
Truncate(formula) ==
    SubSeq(formula, 1, Min(Len(formula), FORMULA_LIMIT))

\* The MetricFormula built for the node at position i
MetricFormula(nodes, i, isRatio) ==
    LET parent == Parent(nodes, i)
        columns == FindAll(nodes, i, {"Column"})
    IN  [name |-> IF parent # 0 /\ nodes[parent].kind = "Alias"
                  THEN nodes[parent].name ELSE NoName,
         formula |-> Truncate(NodeSql(nodes, i)),
         columns_used |-> [k \in DOMAIN columns |-> nodes[columns[k]].name],
         is_ratio |-> isRatio,
         node |-> i]   \* the node the entry was built for (not stored)

\* _extract_metrics: the divisions first, then the CASE expressions that hold
\* an aggregate
MetricsOf(stmt) ==
    LET divs == FindAll(stmt, 1, {"Div"})
        cases == SelectSeq(FindAll(stmt, 1, {"Case"}),
                           LAMBDA i : HasAgg(stmt, i))
    IN  [k \in DOMAIN divs |-> MetricFormula(stmt, divs[k], TRUE)]
            \o [k \in DOMAIN cases |-> MetricFormula(stmt, cases[k], FALSE)]

\* Column names of 1 and 246 characters: SUM(x) / x over the long one has a
\* text of exactly 500 characters, SUM(x) / SUM(x) one of 505.
ColumnNames == {<<"a">>, [i \in 1..246 |-> "x"]}

RECURSIVE ExpressionsOfSize(_)
\* The expressions of exactly n nodes
ExpressionsOfSize(n) ==
    IF n = 1 THEN {Column(name) : name \in ColumnNames}
    ELSE {Unary(kind, this) :
            kind \in AggregateKinds, this \in ExpressionsOfSize(n - 1)}
         \cup {Alias(this, <<"m">>) : this \in ExpressionsOfSize(n - 1)}
         \cup UNION {{Binary(kind, this, expression) :
                        kind \in {"Div", "Case"},
                        this \in ExpressionsOfSize(k),
                        expression \in ExpressionsOfSize(n - 1 - k)} :
                     k \in 1..(n - 2)}

\* _extract_metrics on one statement
ExtractMetricsCall(stmt) ==
    /\ extraction = NoExtraction
    /\ extraction' = [of |-> "metrics", input |-> stmt,
                      output |-> MetricsOf(stmt)]
    /\ UNCHANGED otherThanExtractVars

\* One call is followed from its argument to its result.
ExtractNext ==
    \/ /\ extraction = NoExtraction
       /\ \E n \in 1..MaxLeaves : \E where \in Conditions(n) :
             ExtractFilterConditionsCall(where)
    \/ /\ extraction = NoExtraction
       /\ \E condition \in InConditions : AddInFilterCall(condition)

\* One call of _extract_metrics is followed from its statement to its result.
MetricsNext ==
    /\ extraction = NoExtraction
    /\ \E n \in 1..MaxNodes : \E stmt \in ExpressionsOfSize(n) :
          ExtractMetricsCall(stmt)

\* ---- _compile_patterns and pattern.search (build_ontology.py 73-89, 144-162)
MaxPatternLen == 3
MaxNameLen == 3

\* The patterns of a configuration: up to MaxPatternLen characters, with *
\* at any place; the names of tables and columns: up to MaxNameLen
\* characters, none of them a *.
GlobPatterns == UNION {[1..n -> {"*", "I", "d"}] : n \in 0..MaxPatternLen}
SearchedNames == UNION {[1..n -> {"i", "D", "x"}] : n \in 0..MaxNameLen}

NoMatch == [classifier |-> "", pattern |-> <<>>, name |-> <<>>, matched |-> FALSE]

MatchInit == matching = NoMatch
NoMatching == matching = NoMatch

\* A table pattern of a domain is compiled and searched in a table name.
DomainPatternSearch(pattern, name) ==
    /\ matching = NoMatch
    /\ matching' = [classifier |-> "domain", pattern |-> pattern, name |-> name,
                    matched |-> DomainPatternMatches(pattern, name)]
    /\ UNCHANGED otherThanMatchVars

\* A pattern of a semantic role is compiled and searched in a column name.
RolePatternSearch(pattern, name) ==
    /\ matching = NoMatch
    /\ matching' = [classifier |-> "role", pattern |-> pattern, name |-> name,
                    matched |-> RolePatternMatches(pattern, name)]
    /\ UNCHANGED otherThanMatchVars

MatchNext ==
    \/ /\ matching = NoMatch
       /\ \E pattern \in GlobPatterns, name \in SearchedNames :
             DomainPatternSearch(pattern, name)
    \/ /\ matching = NoMatch
       /\ \E pattern \in GlobPatterns, name \in SearchedNames :
             RolePatternSearch(pattern, name)

\* ---- _build_entities and _build_review_queue (build_ontology.py 282-373, 445-552)
MaxCatalogRows == 3
\* distinct < 20
LOW_CARDINALITY == 20
\* profiled > 100
MIN_PROFILED == 100
CategoricalRoles == {"BooleanFlag", "StatusIndicator", "Code"}

\* What get_column_profiles records for a column of a table of p rows, n of
\* them NULL in the column and d distinct values among the others: the null
\* rate is n / p, in hundredths, and 0 for a table without rows.
Profile(p, n, d) ==
    [profiled_rows |-> p, distinct_count |-> d,
     null_rate |-> IF p > 0 THEN (100 * n) \div p ELSE 0]

\* A catalog written without profiling has none of the three columns.
NoProfile == [profiled_rows |-> 0, distinct_count |-> 0, null_rate |-> NoNullRate]

\* One row of the catalog; semantic_role is what role_classifier.classify
\* gives for the column.
ColumnRow(schema, table, rowCount, column, role, profile) ==
    [database |-> "d", schema |-> schema, table_name |-> table,
     row_count_estimate |-> rowCount, column_name |-> column,
     semantic_role |-> role, null_rate |-> profile.null_rate,
     distinct_count |-> profile.distinct_count,
     profiled_rows |-> profile.profiled_rows]

\* What domain_classifier.classify gives for a table.
DomainOfTable(database, table) ==
    IF table = "U" THEN "UncategorizedDomain" ELSE "SalesDomain"

TableRow(row) ==
    [database |-> row.database, schema |-> row.schema,
     table_name |-> row.table_name,
     row_count_estimate |-> row.row_count_estimate]

\* catalog.select([...]).unique() as a set; the order of its rows is not
\* fixed by unique().
UniqueTables(rows) == {TableRow(rows[i]) : i \in DOMAIN rows}

TableOrders(rows) ==
    LET tables == UniqueTables(rows)
    IN  {order \in [1..Cardinality(tables) -> tables] :
            \A i, j \in DOMAIN order : i # j => order[i] # order[j]}

\* f"{namespace}:{db}.{table}"
EntityId(database, table) == <<database, table>>

\* f"{entity_id}.{col_name}"
ColumnId(entityId, column) == Append(entityId, column)

\* The column node of a catalog row: the profiling data is put on the node
\* only when the catalog has a null_rate column and the row was profiled.
ColumnNode(entityId, row) ==
    [id |-> ColumnId(entityId, row.column_name),
     label |-> row.column_name,
     semanticRole |-> row.semantic_role,
     hasProfile |-> row.null_rate # NoNullRate /\ row.profiled_rows > 0,
     nullRate |-> NullRateOf(row),
     distinctCount |-> row.distinct_count,
     profiledRows |-> row.profiled_rows,
     reviewStatus |-> IF ColumnReasons(row) # <<>>
                      THEN "needs_review" ELSE "auto_classified",
     reviewReasons |-> ColumnReasons(row)]

\* The entity of one row of the table list.
EntityOf(rows, tableRow) ==
    LET domainId == DomainOfTable(tableRow.database, tableRow.table_name)
        entityId == EntityId(tableRow.database, tableRow.table_name)
        tableColumns ==
            SelectSeq(rows, LAMBDA row :
                /\ row.database = tableRow.database
                /\ row.schema = tableRow.schema
                /\ row.table_name = tableRow.table_name)
        columns == [i \in DOMAIN tableColumns |->
                       ColumnNode(entityId, tableColumns[i])]
        needing == Cardinality({i \in DOMAIN columns :
                                   columns[i].reviewStatus = "needs_review"})
        reasons ==
            (IF domainId = "UncategorizedDomain"
             THEN <<"unclassified_domain">> ELSE <<>>)
            \o (IF ManyColumnsNeedReview(needing, Len(columns))
                THEN <<"many_unclassified_columns">> ELSE <<>>)
    IN  [id |-> entityId,
         label |-> tableRow.table_name,
         database |-> tableRow.database,
         schema |-> tableRow.schema,
         belongsToDomain |-> domainId,
         rowCount |-> tableRow.row_count_estimate,
         hasColumn |-> columns,
         reviewStatus |-> IF reasons # <<>>
                          THEN "needs_review" ELSE "auto_classified",
         reviewReasons |-> reasons]

\* _build_entities, with the table list in the given order
BuildEntities(rows, order) ==
    [i \in DOMAIN order |-> EntityOf(rows, order[i])]

RECURSIVE ColumnsFrom(_, _)
\* The columns of the entities from entity e on, in the order the loops of
\* _build_review_queue visit them: <<entity, column>> positions.
ColumnsFrom(entities, e) ==
    IF e > Len(entities) THEN <<>>
    ELSE [c \in DOMAIN entities[e].hasColumn |-> <<e, c>>]
            \o ColumnsFrom(entities, e + 1)

\* col.get("nullRate", 0), col.get("distinctCount", 0), col.get("profiledRows", 0)
NodeNullRate(col) == IF col.hasProfile THEN col.nullRate ELSE 0
NodeDistinctCount(col) == IF col.hasProfile THEN col.distinctCount ELSE 0
NodeProfiledRows(col) == IF col.hasProfile THEN col.profiledRows ELSE 0

IsHighNullRateInclusive(col) ==
    NodeNullRate(col) # 0 /\ NodeNullRate(col) >= HIGH_NULL_RATE

\* null_rate and null_rate > 0.5
IsHighNullRate(col) ==
    NodeNullRate(col) # 0 /\ NodeNullRate(col) > HIGH_NULL_RATE

IsLowCardinalityFromZero(col) ==
    /\ NodeProfiledRows(col) > MIN_PROFILED
    /\ NodeDistinctCount(col) < LOW_CARDINALITY
    /\ col.semanticRole \notin CategoricalRoles

\* profiled > 100 and distinct > 0 and distinct < 20 and the role is not one
\* of the categorical roles
IsLowCardinality(col) ==
    /\ NodeProfiledRows(col) > MIN_PROFILED
    /\ NodeDistinctCount(col) > 0
    /\ NodeDistinctCount(col) < LOW_CARDINALITY
    /\ col.semanticRole \notin CategoricalRoles

\* The entry of a review list for a column; at is the place of the column in
\* the entity list, which the entry itself does not carry.
ReviewItem(entities, at) ==
    LET col == entities[at[1]].hasColumn[at[2]]
    IN  [id |-> col.id, column |-> col.label,
         table |-> entities[at[1]].label, at |-> at]

\* _build_review_queue
BuildReviewQueue(entities) ==
    LET columns == ColumnsFrom(entities, 1)
        Col(at) == entities[at[1]].hasColumn[at[2]]
        Items(ats) == [k \in DOMAIN ats |-> ReviewItem(entities, ats[k])]
        domainReview ==
            SelectSeq([e \in DOMAIN entities |-> e], LAMBDA e :
                entities[e].belongsToDomain = "UncategorizedDomain")
        unclassified ==
            Items(SelectSeq(columns, LAMBDA at :
                Col(at).semanticRole = "Unclassified"))
        highNull ==
            Items(SelectSeq(columns, LAMBDA at : IsHighNullRate(Col(at))))
        lowCardinality ==
            Items(SelectSeq(columns, LAMBDA at : IsLowCardinality(Col(at))))
    IN  [totalItemsNeedingReview |->
             Len(domainReview) + Len(unclassified) + Len(highNull)
             + Len(lowCardinality),
         domainReview |-> [k \in DOMAIN domainReview |->
                              [id |-> entities[domainReview[k]].id]],
         semanticRoleReview |-> <<>>,
         unclassifiedColumns |-> unclassified,
         highNullRateColumns |-> highNull,
         lowCardinalityColumns |-> lowCardinality]

NoDoc == [entities |-> <<>>, reviewQueue |-> <<>>, built |-> FALSE]

NoBuild ==
    /\ selfCatalog = <<>>
    /\ doc = NoDoc

\* The rows of a catalog of tables T and U in the schemas dbo and sales, with
\* one or two row-count estimates and columns c1 and c2.
EntityRows ==
    {ColumnRow(schema, table, rowCount, column, "Identifier", NoProfile) :
        schema \in {"dbo", "sales"}, table \in {"T", "U"},
        rowCount \in {10, 20}, column \in {"c1", "c2"}}

RECURSIVE SeqOf(_)
\* The rows of a set, one after another.
SeqOf(rows) ==
    IF rows = {} THEN <<>>
    ELSE LET row == CHOOSE r \in rows : TRUE
         IN  <<row>> \o SeqOf(rows \ {row})

\* The catalogs of up to MaxCatalogRows rows in which no column of a table
\* stands twice.
EntityCatalogs ==
    {SeqOf(rows) : rows \in
        {rs \in SUBSET EntityRows :
            /\ Cardinality(rs) \in 1..MaxCatalogRows
            /\ \A r, s \in rs :
                  (r.schema = s.schema /\ r.table_name = s.table_name
                   /\ r.column_name = s.column_name) => r = s}}

EntitiesInit ==
    /\ selfCatalog \in EntityCatalogs
    /\ doc = NoDoc

\* OntologyBuilder.build: the entities, then the review queue over them
BuildOntology ==
    /\ ~doc.built
    /\ \E order \in TableOrders(selfCatalog) :
          LET entities == BuildEntities(selfCatalog, order)
          IN  doc' = [entities |-> entities,
                      reviewQueue |-> BuildReviewQueue(entities),
                      built |-> TRUE]
    /\ UNCHANGED selfCatalog
    /\ UNCHANGED otherThanBuildVars

BuildNext == BuildOntology

\* The profiles of the columns of a reviewed table: not profiled, 100 rows,
\* and 200 rows with 1, 19 and 20 distinct values, with half and with just
\* over half of the rows NULL, and with every row NULL.
ReviewProfiles ==
    << Profile(0, 0, 0), Profile(100, 0, 19), Profile(200, 0, 1),
       Profile(200, 0, 19), Profile(200, 0, 20), Profile(200, 100, 19),
       Profile(200, 102, 19), Profile(200, 200, 0) >>

ReviewRoles == <<"Unclassified", "Code", "Identifier">>

\* The kinds of column of a reviewed table, numbered.
ColumnKinds == 1..(Len(ReviewProfiles) * Len(ReviewRoles))
KindProfile(k) == ReviewProfiles[((k - 1) \div Len(ReviewRoles)) + 1]
KindRole(k) == ReviewRoles[((k - 1) % Len(ReviewRoles)) + 1]

\* The catalogs of one table of up to MaxCatalogRows columns, written with
\* profiling or without it.
ReviewCatalogs ==
    {[i \in DOMAIN kinds |->
        ColumnRow("dbo", table, 200, <<"c", i>>, KindRole(kinds[i]),
                  IF profiled THEN KindProfile(kinds[i]) ELSE NoProfile)] :
        kinds \in UNION {{ks \in [1..n -> ColumnKinds] :
                             \A i \in 1..(n - 1) : ks[i] <= ks[i + 1]} :
                         n \in 1..MaxCatalogRows},
        table \in {"T", "U"},
        profiled \in BOOLEAN}

QueueInit ==
    /\ selfCatalog \in ReviewCatalogs
    /\ doc = NoDoc

\* ---- _compute_global_patterns (analyze_procedures.py 431-489)
MaxJoins == 3
\* most_common(20)
MOST_COMMON == 20

\* A table name is a pair of a word and a number; the sentinel of a table
\* that could not be named, and the left table of a join that has none.
UnknownTable == <<"UNKNOWN", 0>>
MissingTable == <<"", 0>>

JoinPattern(left, right) == [leftTable |-> left, rightTable |-> right]

\* A Counter: its keys in the order they were first counted, and the count
\* of each.
EmptyCounter == [keys |-> <<>>, count |-> <<>>]

\* counter[key] += 1
Increment(counter, key) ==
    IF \E k \in DOMAIN counter.keys : counter.keys[k] = key
    THEN [counter EXCEPT !.count =
            [k \in DOMAIN counter.keys |->
                IF counter.keys[k] = key THEN counter.count[k] + 1
                ELSE counter.count[k]]]
    ELSE [keys |-> Append(counter.keys, key), count |-> Append(counter.count, 1)]

CountsLeftTableAlways(join) == join.leftTable # MissingTable

\* j.get("leftTable") and j["leftTable"] != "UNKNOWN"
CountsLeftTable(join) ==
    join.leftTable # MissingTable /\ join.leftTable # UnknownTable

RECURSIVE JoinTables(_, _, _)
\* The loop over the joins from join i on
JoinTables(joins, i, counter) ==
    IF i > Len(joins) THEN counter
    ELSE LET right == Increment(counter, joins[i].rightTable)
         IN  JoinTables(joins, i + 1,
                        IF CountsLeftTable(joins[i])
                        THEN Increment(right, joins[i].leftTable)
                        ELSE right)

RECURSIVE Ranked(_, _)
\* The first k keys of a counter by count, highest first, keys of equal count
\* in the order they were first counted: each key is put behind the keys
\* before it whose count is not lower.
Ranked(counter, k) ==
    IF k = 0 THEN <<>>
    ELSE LET ranked == Ranked(counter, k - 1)
             ahead == Cardinality({p \in DOMAIN ranked :
                                      ranked[p].count >= counter.count[k]})
         IN  SubSeq(ranked, 1, ahead)
                \o <<[table |-> counter.keys[k], count |-> counter.count[k]]>>
                \o SubSeq(ranked, ahead + 1, Len(ranked))

\* Counter.most_common(n): the first n keys of that order
MostCommon(counter, n) ==
    SubSeq(Ranked(counter, Len(counter.keys)), 1, Min(n, Len(counter.keys)))

\* The mostJoinedTables list of the result
MostJoinedTables(joins) ==
    MostCommon(JoinTables(joins, 1, EmptyCounter), MOST_COMMON)

\* Eleven joins of twenty-two tables, each table joined once.
ManyTables ==
    [i \in 1..11 |->
        JoinPattern(<<"t", 2 * i - 1>>, <<"t", 2 * i>>)]

\* The joins of a few procedures over the tables A and B: with either as the
\* right table and a left table that is one of them, not known or missing,
\* and one whose right table is not known.
FewJoins ==
    {JoinPattern(left, right) :
        left \in {<<"A", 0>>, <<"B", 0>>, UnknownTable, MissingTable},
        right \in {<<"A", 0>>, <<"B", 0>>}}
    \cup {JoinPattern(<<"A", 0>>, UnknownTable)}

NoPatterns == [joins |-> <<>>, mostJoinedTables |-> <<>>, done |-> FALSE]

GlobalInit == globalPatterns = NoPatterns
NoGlobalPatterns == globalPatterns = NoPatterns

\* _compute_global_patterns on the joins of all procedures
ComputeGlobalPatterns(joins) ==
    /\ globalPatterns = NoPatterns
    /\ globalPatterns' = [joins |-> joins,
                          mostJoinedTables |-> MostJoinedTables(joins),
                          done |-> TRUE]
    /\ UNCHANGED otherThanGlobalVars

GlobalNext ==
    /\ globalPatterns = NoPatterns
    /\ \E n \in 0..MaxJoins, many \in {<<>>, ManyTables} :
          \E few \in [1..n -> FewJoins] : ComputeGlobalPatterns(many \o few)

\* ------------------------------------------------------- the specification
\* add_annotation calls of one caller, one after another, with crashes
AnnNext ==
    \/ \E p \in SequentialCallers, env \in Envs, target \in CallTargets,
          type \in CallTypes, content \in CallContents :
          AddAnnotationValidate(p, env, target, type, content)
    \/ \E p \in SequentialCallers : AddAnnotationLoad(p)
    \/ \E p \in SequentialCallers : AtomicWriteMkstemp(p)
    \/ \E p \in SequentialCallers : AtomicWriteStart(p)
    \/ \E p \in SequentialCallers : AtomicWriteFinish(p)
    \/ \E p \in SequentialCallers : AtomicWriteReplace(p)
    \/ \E p \in SequentialCallers : AtomicWriteReplaceFails(p)
    \/ \E p \in SequentialCallers : Crash(p)

\* add_annotation calls of two callers, their steps interleaved
ConcurrentNext ==
    \/ \E p \in Procs, env \in Envs, target \in ValidTargets,
          type \in CallTypes, content \in CallContents :
          AddAnnotationValidate(p, env, target, type, content)
    \/ \E p \in Procs : AddAnnotationLoad(p)
    \/ \E p \in Procs : AtomicWriteMkstemp(p)
    \/ \E p \in Procs : AtomicWriteStart(p)
    \/ \E p \in Procs : AtomicWriteFinish(p)
    \/ \E p \in Procs : AtomicWriteReplace(p)
    \/ \E p \in Procs : AtomicWriteReplaceFails(p)

\* get_annotations over a directory of author files
MergeNext ==
    \E order \in GlobOrders(annFiles), target \in {NoTarget} \cup ValidTargets :
        GetAnnotationsCall(order, target)

\* No add_annotation call and no author file
NoAnnotations ==
    /\ annFiles = [f \in FileNames |-> Missing]
    /\ annDir = FALSE
    /\ AnnStart

vars ==
    <<annVars, refreshVars, parseVars, classifyVars, searchVars,
      ontologyVars, reviewVars, statusVars, writersVars, extractVars,
      matchVars, buildVars, globalVars>>
\* Every component but the one named is at rest.
QuietExcept(component) ==
    /\ component # "annotations" => NoAnnotations
    /\ component # "refresh" => NoRun
    /\ component # "parse" => NoParse
    /\ component # "classify" => NoClassifier
    /\ component # "search" => NoSearchCatalog
    /\ component # "ontology" => NoOntology
    /\ component # "review" => NoReview
    /\ component # "status" => NoStatusCall
    /\ component # "writers" => NoWriters
    /\ component # "extract" => ExtractInit
    /\ component # "match" => NoMatching
    /\ component # "build" => NoBuild
    /\ component # "global" => NoGlobalPatterns

Init == AnnInit /\ QuietExcept("annotations")
Next == AnnNext
Spec == Init /\ [][Next]_vars
InitMerge == MergeInit /\ QuietExcept("annotations")
SpecMerge == InitMerge /\ [][MergeNext]_vars
SpecConcurrent == Init /\ [][ConcurrentNext]_vars
InitRefresh == RunInit /\ QuietExcept("refresh")
SpecRefresh == InitRefresh /\ [][RunNext]_vars
InitParse == ParseInit /\ QuietExcept("parse")
SpecParse == InitParse /\ [][ParseNext]_vars
\* parse is one call that runs to its end once started
SpecParseFair == SpecParse /\ WF_vars(ParseNext)
InitClassify == ClassifyInit /\ QuietExcept("classify")
SpecClassify == InitClassify /\ [][ClassifyNext]_vars
InitSearch == SearchInit /\ QuietExcept("search")
SpecSearch == InitSearch /\ [][SearchNext]_vars
InitOntology == OntologyInit /\ QuietExcept("ontology")
SpecOntology == InitOntology /\ [][OntologyNext]_vars
InitReview == ReviewInit /\ QuietExcept("review")
SpecReview == InitReview /\ [][ReviewNext]_vars
InitStatus == StatusInit /\ QuietExcept("status")
SpecStatus == InitStatus /\ [][StatusNext]_vars
InitWriters == WritersInit /\ QuietExcept("writers")
SpecWriters == InitWriters /\ [][WritersNext]_vars
InitExtract == ExtractInit /\ QuietExcept("extract")
SpecExtract == InitExtract /\ [][ExtractNext]_vars
SpecMetrics == InitExtract /\ [][MetricsNext]_vars
InitMatch == MatchInit /\ QuietExcept("match")
SpecMatch == InitMatch /\ [][MatchNext]_vars
InitEntities == EntitiesInit /\ QuietExcept("build")
SpecEntities == InitEntities /\ [][BuildNext]_vars
InitQueue == QueueInit /\ QuietExcept("build")
SpecQueue == InitQueue /\ [][BuildNext]_vars
InitGlobal == GlobalInit /\ QuietExcept("global")
SpecGlobal == InitGlobal /\ [][GlobalNext]_vars

\* ------------------------------------------------------------------ claims
\* what a reader gets out of a file: the tables of a document, nothing of a
\* file that is not one
Readable(file) == IF file.kind = "json" THEN file.tables ELSE <<>>

RECURSIVE StoredCount(_)
StoredCount(tables) ==
    IF tables = <<>> THEN 0
    ELSE Len(Head(tables).annotations) + StoredCount(Tail(tables))

SavedReadable ==
    \A s \in saved :
        [target |-> s.target, annotation |-> s.annotation]
            \in AllAnnotations(Readable(annFiles[s.file]))

\* C1: whatever step of add_annotation's write a crash interrupts, every step
\* leaves each author file as it was or holds the complete new document (never
\* a prefix of it), and every annotation an earlier successful call saved is
\* still readable from its file.
C1_CrashSafeWrite ==
    /\ []SavedReadable
    /\ [][\A f \in DOMAIN annFiles :
            \/ annFiles'[f] = annFiles[f]
            \/ \E p \in Procs :
                  /\ pc[p] = "replace"
                  /\ call[p].username = f
                  /\ annFiles'[f] = JsonFile(call[p].data)]_vars

\* C1 witness: the process crashed with its temporary file half written,
\* after an earlier call had succeeded.
C1_Witness ==
    /\ \E p \in Procs : pc[p] = "crashed"
    /\ \E t \in tmpFiles : t.content.kind = "partial"
    /\ saved # {}

\* the calls the claim says are rejected
InvalidCall(target, type, content) ==
    \/ CountChar(target, ".") # 2
    \/ type \notin {"note", "quality_flag", "deprecation"}
    \/ /\ type = "quality_flag"
       /\ content.text \notin {"TRUSTED", "STALE", "INCOMPLETE", "EXPERIMENTAL"}
    \/ content.len > 10000

\* C8: no add_annotation call with a target without exactly two dots, an
\* unknown type, a quality_flag outside the four values or a content longer
\* than 10,000 characters gets past validation or saves an annotation; the
\* step that rejects a call ends it in a ValueError and creates, modifies or
\* deletes no file.
C8_InvalidCallsRejected ==
    /\ [](\A p \in Procs :
            pc[p] \notin {"idle", "crashed"} =>
                ~InvalidCall(call[p].target, call[p].type, call[p].content))
    /\ [](\A s \in saved :
            ~InvalidCall(s.target, s.annotation.type, s.annotation.content))
    /\ [][\A p \in Procs :
            (/\ pc[p] = "idle" /\ pc'[p] = "idle"
             /\ outcome'[p] # outcome[p] \/ outcome'[p].status = "ValueError"
             /\ \A q \in Procs \ {p} : pc'[q] = pc[q])
            => /\ outcome'[p].status = "ValueError"
               /\ UNCHANGED <<annFiles, annDir, tmpFiles>>]_vars

\* C8 witness: a call was rejected after an earlier call had written a file.
C8_Witness ==
    /\ \E p \in Procs : outcome[p].status = "ValueError"
    /\ saved # {}

\* C9: each successful call of the sequence leaves the author's file with
\* every table and annotation it held, in the same order, plus the one new
\* annotation at the end of its target's list (a new table goes last); no
\* step lowers the number of annotations a file stores.
C9_AppendOnly ==
    [][/\ \A p \in Procs :
            AtomicWriteReplace(p) =>
              LET f == call[p].username
                  t == call[p].target
                  before == Readable(annFiles[f])
                  after == Readable(annFiles'[f])
                  new == outcome'[p].annotation
              IN  /\ annFiles'[f].kind = "json"
                  /\ outcome'[p].status = "ok"
                  /\ new.type = call[p].type /\ new.content = call[p].content
                  /\ new.id \notin IdsOf(before)
                  /\ Len(after) = Len(before) + (IF KeyIndex(before, t) = 0 THEN 1 ELSE 0)
                  /\ \A i \in 1..Len(before) :
                        /\ after[i].target = before[i].target
                        /\ after[i].annotations =
                             IF before[i].target = t
                             THEN Append(before[i].annotations, new)
                             ELSE before[i].annotations
                  /\ KeyIndex(before, t) = 0 =>
                        after[Len(after)] = [target |-> t, annotations |-> <<new>>]
                  /\ StoredCount(after) = StoredCount(before) + 1
       /\ \A f \in DOMAIN annFiles :
            StoredCount(Readable(annFiles'[f])) >= StoredCount(Readable(annFiles[f]))]_vars

\* C9 witness: two calls in a row were saved to the same file under the same
\* target.
C9_Witness ==
    \E s1, s2 \in saved :
        /\ s1 # s2 /\ s1.file = s2.file /\ s1.target = s2.target
        /\ Len(AnnotationsOf(Readable(annFiles[s1.file]), s1.target)) >= 2

\* C3: whatever order the author files are read in, the merge
\* holds the same set of annotations, each under the same target, with at
\* most one annotation per id; files that hold one id with different content
\* or under different targets included.
C3_MergeOrderIndependent ==
    (readResult.raised = "none" /\ annDir /\ readResult.target = NoTarget) =>
        /\ \A x, y \in AllAnnotations(readResult.tables) :
              x.annotation.id = y.annotation.id => x = y
        /\ \A order \in GlobOrders(annFiles) :
              LET other == GetAnnotations(annDir, ContentsIn(annFiles, order), NoTarget)
              IN  AllAnnotations(other.tables) = AllAnnotations(readResult.tables)

\* a file that is not a document: damaged text, a write cut short, or bytes
\* that are no text at all
Corrupt(file) == file.kind \in {"text", "partial", "bytes"}

\* C4: with one author's file corrupt and the others missing or
\* well formed, get_annotations raises nothing and returns every annotation
\* of the well-formed files.
C4_CorruptFileTolerated ==
    (/\ readResult.raised # "no call"
     /\ readResult.target = NoTarget
     /\ annDir
     /\ \E f \in DOMAIN annFiles :
           /\ Corrupt(annFiles[f])
           /\ \A g \in DOMAIN annFiles \ {f} : annFiles[g].kind \in {"missing", "json"}
           /\ \E g \in DOMAIN annFiles \ {f} : annFiles[g].kind = "json")
    => /\ readResult.raised = "none"
       /\ \A g \in DOMAIN annFiles :
             IdsOf(Readable(annFiles[g])) \subseteq IdsOf(readResult.tables)

\* What the run printed about its targets and databases.
Entered(t) == \E i \in 1..Len(printed) : printed[i] = Printed("target", t, NoDatabase)
Listed(t) ==
    \E i \in 1..Len(printed) : printed[i] = Printed("found databases", t, NoDatabase)
DatabaseEntered(t, db) ==
    \E i \in 1..Len(printed) : printed[i] = Printed("database", t, db)
TargetErrors(t) ==
    {i \in 1..Len(printed) :
        /\ printed[i].target = t
        /\ printed[i].ev \in {"EnvironmentError", "OperationalError", "ERROR"}}
DatabaseWarned(t, db) ==
    \E i \in 1..Len(printed) : printed[i] = Printed("WARNING", t, db)

\* C2: a reader that loads the catalog while a refresh runs finds the complete
\* catalog of before the refresh or the complete one of after it, never a
\* partially written file.
C2_ReaderSeesCompleteCatalog == observed.kind # "partial"

\* C5: in a refresh or procedure-analysis run the failure of one database or
\* of one target does not keep the remaining ones from being processed: when
\* the run ends every target was entered, and every database of every target
\* whose databases were listed; and what was collected is kept: all_data and,
\* inside a target, all_metadata only ever grow.
C5_FailuresAreIsolated ==
    /\ [](rpc = "done" /\ targetsToScan # <<>> =>
            /\ \A i \in 1..Len(targetsToScan) : Entered(targetsToScan[i])
            /\ \A t \in Targets : Listed(t) =>
                  \A d \in 1..Len(Databases) : DatabaseEntered(t, Databases[d]))
    /\ [][/\ IsPrefix(allData, allData')
          /\ (rpc = "db" /\ rpc' = "db" => IsPrefix(allMetadata, allMetadata'))
         ]_vars

\* A run ended in which the first target failed, the first database of the
\* second one failed, and the rows of its second database were written out.
C5_Witness ==
    /\ rpc = "done"
    /\ targetsToScan = <<"oms", "warehouse">>
    /\ TargetErrors("oms") # {}
    /\ DatabaseWarned("warehouse", "db1")
    /\ \E r \in outputs : r.target = "warehouse" /\ r.database = "db2"

\* C6: when the credential variables of a target are not set the refresh run
\* stops: no later target is scanned, and the run exits with a status that is
\* not zero.
C6_MissingCredentialsStopRun ==
    tool = "refresh" =>
        \A i \in 1..Len(targetsToScan) :
            (targetsToScan[i] \notin environ /\ Entered(targetsToScan[i])) =>
                /\ \A j \in (i + 1)..Len(targetsToScan) : ~Entered(targetsToScan[j])
                /\ rpc = "done" => exitStatus > 0

\* C7: after the refresh of a target completed the catalog holds exactly the
\* rows of that scan for the target, none of an earlier scan, and the rows of
\* the targets the run has not refreshed are the ones it started with.
C7_TargetRowsReplaced ==
    (tool = "refresh" /\ catalog.kind = "complete") =>
        /\ \A i \in 1..Len(targetsToScan) :
              LET t == targetsToScan[i]
              IN  (i < targetIdx /\ scanned[t] # NotScanned /\ TargetErrors(t) = {})
                      => RowsOf(catalog.rows, t) = scanned[t]
        /\ \A t \in Targets :
              (\A i \in 1..Len(targetsToScan) : targetsToScan[i] = t => i >= targetIdx)
                  => \A r \in RowsOf(catalog.rows, t) : r.scan = "earlier"

\* A phase fails in a statement when one of its nodes makes it raise.
PhaseFails(s, phase) == \E k \in 1..Len(sql.statements[s][phase]) : ~sql.statements[s][phase][k]

InResult(phase, pattern) ==
    IF phase = "references" THEN pattern \in parsed[phase]
    ELSE \E i \in 1..Len(parsed[phase]) : parsed[phase][i] = pattern

\* C10: when a phase fails in a statement every other phase still runs on the
\* statement, and the patterns of every phase that did not fail are in the
\* result parse returns.
C10_PhasesIndependent ==
    ppc = "done" /\ sql.kind = "statements" /\ available =>
        \A s \in 1..Len(sql.statements), failing \in PhaseNames :
            (sql.statements[s] # NoStatement /\ PhaseFails(s, failing)) =>
                \A phase \in PhaseNames \ {failing} :
                    /\ <<s, phase>> \in ran
                    /\ ~PhaseFails(s, phase) =>
                          \A k \in 1..Len(sql.statements[s][phase]) :
                              InResult(phase, Pattern(s, k))

\* parse returned for a statement whose references phase raised and whose
\* join phase met a join it could not read; the metrics are in the result.
C10_Witness ==
    /\ ppc = "done"
    /\ sql.kind = "statements"
    /\ available
    /\ sql.statements[1] # NoStatement
    /\ PhaseFails(1, "references")
    /\ PhaseFails(1, "joins")
    /\ ~PhaseFails(1, "metrics")
    /\ InResult("metrics", Pattern(1, 1))
    /\ parsed.parse_errors # <<>>

\* The patterns of a result, of all phases.
PatternsOf(p) ==
    UNION {{<<ph, p[ph][i]>> : i \in 1..Len(p[ph])} : ph \in PhaseNames \ {"references"}}
    \cup {<<"references", x>> : x \in p["references"]}

\* C11: parse returns a ParsedProcedure for every text and never raises; for
\* an empty or whitespace-only text the result has no pattern of any phase
\* and exactly one parse error; and a failure in one statement leaves the
\* patterns extracted from earlier statements in the result: no step of
\* parse removes a pattern or a parse error.
C11_ParseNeverRaises ==
    /\ [](ppc # "raised")
    /\ <>(ppc = "done")
    /\ [](ppc = "done" /\ sql.kind \in {"empty", "whitespace"} =>
            /\ PatternsOf(parsed) = {}
            /\ Len(parsed.parse_errors) = 1)
    /\ [][/\ PatternsOf(parsed) \subseteq PatternsOf(parsed')
          /\ IsPrefix(parsed.parse_errors, parsed'.parse_errors)]_vars

\* parse returned after the references phase raised in the second statement;
\* the joins of the first statement are in the result.
C11_Witness ==
    /\ ppc = "done"
    /\ sql.kind = "statements"
    /\ available
    /\ Len(sql.statements) >= 2
    /\ sql.statements[1] # NoStatement
    /\ sql.statements[2] # NoStatement
    /\ PhaseFails(2, "references")
    /\ "Analysis error" \in {parsed.parse_errors[i] : i \in 1..Len(parsed.parse_errors)}
    /\ InResult("joins", Pattern(1, 1))

\* A classify call was made on the classifier.
Asked(which) == classifier = which /\ cpc = "ready" /\ args # NoArgs

DomainPatternHit(rule, name) ==
    \E k \in 1..Len(rule.patterns) : DomainPatternMatches(rule.patterns[k], name)
RolePatternHit(rule, name) ==
    \E k \in 1..Len(rule.patterns) : RolePatternMatches(rule.patterns[k], name)

\* Rule i of the configuration comes before rule j: a lower priority number,
\* or the same one and declared earlier.
ComesBefore(i, j) ==
    \/ Priority(config[i]) < Priority(config[j])
    \/ Priority(config[i]) = Priority(config[j]) /\ i < j

\* C12: a domain rule with a source affinity list and name patterns assigns a
\* table only when its database is in the list and one of the patterns
\* matches its name.
C12_AffinityRuleNeedsPattern ==
    Asked("domain") =>
        \A i \in 1..Len(config) :
            (/\ ~config[i].is_fallback
             /\ config[i].database_affinity # {}
             /\ config[i].patterns # <<>>
             /\ classified = config[i].id)
            => /\ args.database \in config[i].database_affinity
               /\ DomainPatternHit(config[i], args.name)

\* C12, amended: a domain rule with a source affinity list assigns a table
\* only when its database is in the list, and then it assigns it whether or
\* not one of its patterns matches the name: evaluation does not go on past
\* such a rule to a rule that comes after it.
C12_AffinityRuleAssignsOnDatabase ==
    Asked("domain") =>
        \A i \in 1..Len(config) :
            (~config[i].is_fallback /\ config[i].database_affinity # {}) =>
                /\ classified = config[i].id
                      => args.database \in config[i].database_affinity
                /\ args.database \in config[i].database_affinity
                      => \/ classified = config[i].id
                         \/ \E j \in 1..Len(config) :
                               /\ ~config[j].is_fallback
                               /\ ComesBefore(j, i)
                               /\ classified = config[j].id

\* A table of an affinity database that matches none of the rule's patterns
\* was given the rule's domain.
C12_Witness ==
    /\ Asked("domain")
    /\ \E i \in 1..Len(config) :
          /\ config[i].database_affinity # {}
          /\ config[i].patterns # <<>>
          /\ classified = config[i].id
          /\ ~DomainPatternHit(config[i], args.name)

\* What makes a domain rule a match for a table.
DomainAccepts(rule, a) ==
    /\ ~rule.is_fallback
    /\ \/ rule.database_affinity = {} /\ DomainPatternHit(rule, a.name)
       \/ a.database \in rule.database_affinity

\* What makes a role rule a match for a column: its key conditions hold, a
\* pattern matches the name, and the type is among its types, if it has any.
RoleAccepts(rule, a) ==
    /\ ~rule.is_fallback
    /\ ("is_primary_key" \in rule.conditions) => a.is_pk
    /\ ("is_foreign_key" \in rule.conditions) => a.is_fk
    /\ RolePatternHit(rule, a.name)
    /\ rule.data_types # {} =>
          \E t \in rule.data_types : Lower(t) = Lower(a.data_type)

Accepts(rule) ==
    IF classifier = "domain" THEN DomainAccepts(rule, args) ELSE RoleAccepts(rule, args)

\* The matching rule that comes before every other matching rule.
IsFirstMatch(i) ==
    /\ Accepts(config[i])
    /\ \A j \in 1..Len(config) : (j # i /\ Accepts(config[j])) => ComesBefore(i, j)

C14_FallbackLast ==
    (Asked("domain") \/ Asked("role")) =>
        LET fallbacks == {i \in 1..Len(config) : config[i].is_fallback}
            none == \A i \in 1..Len(config) : ~Accepts(config[i])
            sentinel == IF classifier = "domain" THEN "UncategorizedDomain"
                        ELSE "Unclassified"
        IN  /\ \A i \in fallbacks : classified = config[i].id => none
            /\ (none /\ fallbacks # {}) => \E i \in fallbacks : classified = config[i].id
            /\ (none /\ fallbacks = {}) => classified = sentinel

\* A fallback rule with the lowest priority number of the configuration was
\* passed over for a rule that matches.
C14_Witness ==
    /\ Asked("role")
    /\ \E i, j \in 1..Len(config) :
          /\ config[i].is_fallback
          /\ Priority(config[i]) < Priority(config[j])
          /\ Accepts(config[j])
          /\ classified = config[j].id

\* C15: classifyRole returns the first rule in priority order whose key
\* conditions hold of the column, one of whose patterns matches the name and
\* whose data types, if it has any, include the column's type ignoring case;
\* a rule that fails one of these is passed over, also one whose pattern
\* matches and whose types do not.
C15_RoleFirstFullMatch ==
    Asked("role") =>
        \A i \in 1..Len(config) : IsFirstMatch(i) => classified = config[i].id

\* A rule whose pattern matches the column has the wrong type for it, and the
\* rule after it gave the role.
C15_Witness ==
    /\ Asked("role")
    /\ \E i, j \in 1..Len(config) :
          /\ ComesBefore(i, j)
          /\ ~config[i].is_fallback
          /\ RolePatternHit(config[i], args.name)
          /\ config[i].data_types # {}
          /\ ~Accepts(config[i])
          /\ IsFirstMatch(j)
          /\ classified = config[j].id

\* The score the documentation gives a row: for each keyword, case-folded,
\* 3 if the table name contains it, 2 if the column name does, 1 if the
\* database name does.
RECURSIVE ContainmentScore(_, _)
ContainmentScore(row, keywords) ==
    IF keywords = <<>> THEN 0
    ELSE LET kw == Lower(Head(keywords))
         IN  (IF Contains(Lower(row.table_name), kw) THEN 3 ELSE 0)
             + (IF Contains(Lower(row.column_name), kw) THEN 2 ELSE 0)
             + (IF Contains(Lower(row.database), kw) THEN 1 ELSE 0)
             + ContainmentScore(row, Tail(keywords))

ContainmentRelevance(row, keywords) ==
    ContainmentScore(row, keywords)
    + (IF row.is_primary_key THEN 2 ELSE 0)
    + (IF row.is_foreign_key THEN 1 ELSE 0)

Searched == searchCall # NoSearch

\* C17: for every row and keyword list of a search, the keyword score the
\* search gives the row is the sum over the keywords (case-folded) of 3 if the
\* table name contains the keyword, 2 if the column name does and 1 if the
\* database name does, and the relevance of a returned row is that score plus
\* 2 for a primary key plus 1 for a foreign key.
C17_ScoreIsWeightedContainment ==
    Searched =>
        LET kws == NormalizeKeywords(searchCall.tool, searchCall.keywords)
        IN  /\ \A r \in searchDf :
                KeywordScore(r, kws) = ContainmentScore(r, searchCall.keywords)
            /\ \A i \in DOMAIN searchOut :
                searchOut[i].relevance =
                    ContainmentRelevance(searchOut[i].row, searchCall.keywords)

\* The rows in an order of relevance descending and, among equal relevance,
\* row-count estimate descending, with the documented score.
ContainmentRanked(keywords) ==
    LET rows == {r \in searchDf : ContainmentScore(r, keywords) > 0}
    IN  {f \in [1..Cardinality(rows) -> rows] :
            /\ \A i, j \in DOMAIN f : f[i] = f[j] => i = j
            /\ \A i, j \in DOMAIN f : i < j =>
                \/ ContainmentRelevance(f[i], keywords)
                       > ContainmentRelevance(f[j], keywords)
                \/ /\ ContainmentRelevance(f[i], keywords)
                          = ContainmentRelevance(f[j], keywords)
                   /\ f[i].row_count_estimate >= f[j].row_count_estimate}

\* C16: the result of a search is exactly the first top_n of the rows whose
\* keyword score is above 0, ordered by relevance descending and then by
\* row-count estimate descending; a row of keyword score 0 never appears and
\* at most top_n rows are returned.
C16_ResultIsTopOfRanking ==
    Searched =>
        /\ Len(searchOut) <= searchCall.top_n
        /\ \A i \in DOMAIN searchOut :
              ContainmentScore(searchOut[i].row, searchCall.keywords) > 0
        /\ \E order \in ContainmentRanked(searchCall.keywords) :
              [i \in DOMAIN searchOut |-> searchOut[i].row]
                  = SubSeq(order, 1, Min(searchCall.top_n, Len(order)))

\* The same ranking stated with the score search_catalog computes.
ResultIsTopOfComputedRanking ==
    (Searched /\ ~(searchCall.tool = "server"
                   /\ NormalizeKeywords("server", searchCall.keywords) = <<>>)) =>
        LET kws == NormalizeKeywords(searchCall.tool, searchCall.keywords)
        IN  /\ Len(searchOut) <= searchCall.top_n
            /\ \A i \in DOMAIN searchOut : KeywordScore(searchOut[i].row, kws) > 0
            /\ \E order \in Sorted({r \in searchDf : KeywordScore(r, kws) > 0}, kws) :
                  [i \in DOMAIN searchOut |-> searchOut[i].row]
                      = SubSeq(order, 1, Min(searchCall.top_n, Len(order)))

Built == entity # NoEntity

\* C18: a built entity's reviewStatus is needs_review exactly when its domain
\* is the uncategorized sentinel or strictly more than 30% of its columns are
\* needs_review, and a column is needs_review exactly when its role is
\* "Unclassified" or its null rate is above 0.5.
C18_ReviewStatus ==
    Built =>
        /\ \A i \in DOMAIN entity.hasColumn :
              entity.hasColumn[i].reviewStatus = "needs_review"
                  <=> \/ tableCols[i].semantic_role = "Unclassified"
                      \/ (tableCols[i].null_rate # NoNullRate
                          /\ tableCols[i].null_rate > 50)
        /\ \A i \in DOMAIN entity.hasColumn :
              entity.hasColumn[i].reviewStatus \in {"needs_review", "auto_classified"}
        /\ LET needing == Cardinality({i \in DOMAIN tableCols :
                               \/ tableCols[i].semantic_role = "Unclassified"
                               \/ tableCols[i].null_rate > 50})
           IN  entity.reviewStatus = "needs_review"
                   <=> \/ entity.belongsToDomain = "UncategorizedDomain"
                       \/ 100 * needing > 30 * Len(tableCols)
        /\ entity.reviewStatus \in {"needs_review", "auto_classified"}

\* An entity of a known domain with exactly 30% of its columns needing review,
\* one of them for its null rate alone, is not marked for review.
C18_Witness ==
    /\ Built
    /\ entity.belongsToDomain # "UncategorizedDomain"
    /\ entity.columnCount = 10
    /\ entity.columnsNeedingReview = 3
    /\ \E i \in DOMAIN entity.hasColumn :
          entity.hasColumn[i].reviewReasons = <<"high_null_rate">>
    /\ \E i \in DOMAIN tableCols : tableCols[i].null_rate = 50
    /\ entity.reviewStatus = "auto_classified"

ItemsOf(feedback) ==
    {feedback.metricCorrections[i] : i \in DOMAIN feedback.metricCorrections}
    \cup {feedback.relationshipFlags[i] : i \in DOMAIN feedback.relationshipFlags}
    \cup {feedback.filterMeanings[i] : i \in DOMAIN feedback.filterMeanings}

\* C19: the review feedback log is append-only: every feedback item an
\* application saved is still in the log after every later application.
C19_FeedbackLogAppendOnly ==
    [][\A d \in 1..MaxDays :
          reviewFiles[d].exists =>
              /\ reviewFiles'[d].exists
              /\ ItemsOf(reviewFiles[d].feedback) \subseteq ItemsOf(reviewFiles'[d].feedback)]_vars

Answered == statusOut # NoStatus

\* C20: get_catalog_status returns NOT_BUILT when the catalog file is missing,
\* whatever scan record exists; otherwise UNKNOWN when there is no scan
\* record, OK exactly when less than 7 whole days have passed since the last
\* scan, and STALE for every age of 7 days or more.
C20_CatalogStatus ==
    Answered =>
        /\ ~statusDir.metadata => statusOut.status = "NOT_BUILT"
        /\ (statusDir.metadata /\ ~statusDir.scan) => statusOut.status = "UNKNOWN"
        /\ (statusDir.metadata /\ statusDir.scan) =>
              /\ statusOut.status \in {"OK", "STALE"}
              /\ statusOut.status = "OK"
                    <=> now - statusDir.last_updated < 7 * PerDay
              /\ statusOut.status = "STALE"
                    <=> now - statusDir.last_updated >= 7 * PerDay

\* A catalog scanned exactly 7 days ago is STALE.
C20_Witness ==
    /\ Answered
    /\ statusDir.metadata /\ statusDir.scan
    /\ now - statusDir.last_updated = 7 * PerDay
    /\ statusOut = [status |-> "STALE", age_days |-> 7]

AllReturned == \A p \in Procs : pc[p] = "idle"

\* C21: for any interleaving of concurrent add_annotation calls that write
\* to the same author file, once all calls have finished the file holds the
\* annotation of every call that returned successfully.
C21_NoLostUpdate ==
    AllReturned =>
        \A s \in saved :
            [target |-> s.target, annotation |-> s.annotation]
                \in AllAnnotations(Readable(annFiles[s.file]))

BothFinished == \A t \in Targets : wpc[t] = "done"

\* C22: when the refreshes of two different targets run concurrently against
\* the same catalog file, after both have finished the catalog holds the newly
\* scanned rows of both targets.
C22_BothRefreshesKept ==
    BothFinished =>
        /\ sharedCatalog.kind = "complete"
        /\ \A t \in Targets : NewRows(t) \subseteq sharedCatalog.rows

\* The leaves the claim says give a filter, in the order they stand in.
NamedLeaves(nodes) ==
    SelectSeq(nodes, LAMBDA n :
        /\ n.kind = "leaf"
        /\ n.shape \in {"EQ", "NEQ", "GT", "GTE", "LT", "LTE", "In", "Between",
                        "Like", "Is"}
        /\ n.column # ""
        /\ ~n.raises)

C25_InValuePattern ==
    (extraction.of = "in" /\ extraction.input[1].column # "") =>
        LET values == extraction.input[1].values
            n == Len(values)
            shown == Min(n, 5)
            described == [i \in 1..shown |-> GetValuePattern(values[i])]
            listed == IF n > 5 THEN Append(described, <<".", ".", ".">>)
                      ELSE described
        IN  /\ Len(extraction.output) = 1
            /\ extraction.output[1].operator = "IN"
            /\ extraction.output[1].value_pattern =
                  IF n = 0 THEN <<"(", "s", "u", "b", "q", "u", "e", "r", "y", ")">>
                  ELSE <<"(">> \o Join(listed, <<",", " ">>) \o <<")">>

\* An IN filter over exactly five values has no marker.
C25_Witness ==
    /\ extraction.of = "in"
    /\ Len(extraction.input[1].values) = 5
    /\ Len(extraction.output) = 1
    /\ \A i \in DOMAIN extraction.output[1].value_pattern :
          extraction.output[1].value_pattern[i] # "."
    /\ extraction.output[1].value_pattern[1] = "("

\* The entries of the metrics list that were built for the node at position i
EntriesFor(metrics, i) == {k \in DOMAIN metrics : metrics[k].node = i}

\* C24: the metrics list has one entry with is_ratio = true for every
\* division and one entry with is_ratio = false for every CASE that holds a
\* SUM, COUNT or AVG call, none for a CASE without one and none for any other
\* node; overlapping expressions each have their own entry, and every stored
\* formula is at most 500 characters long.
C24_MetricsPerExpression ==
    extraction.of = "metrics" =>
        LET stmt == extraction.input
            metrics == extraction.output
        IN  /\ \A i \in DOMAIN stmt :
                  LET entries == EntriesFor(metrics, i)
                      aggregates == {j \in Subtree(stmt, i) :
                                        stmt[j].kind \in {"Sum", "Count", "Avg"}}
                  IN  IF stmt[i].kind = "Div"
                      THEN /\ Cardinality(entries) = 1
                           /\ \A k \in entries : metrics[k].is_ratio
                      ELSE IF stmt[i].kind = "Case" /\ aggregates # {}
                      THEN /\ Cardinality(entries) = 1
                           /\ \A k \in entries : ~metrics[k].is_ratio
                      ELSE entries = {}
            /\ \A k \in DOMAIN metrics :
                  LET text == NodeSql(stmt, metrics[k].node)
                      formula == metrics[k].formula
                  IN  /\ Len(formula) <= 500
                      /\ Len(formula) <= Len(text)
                      /\ formula = SubSeq(text, 1, Len(formula))

\* A division under a CASE with an AVG gave two entries, a ratio and one
\* that is not a ratio and whose text of more than 500 characters was cut.
C24_Witness ==
    /\ extraction.of = "metrics"
    /\ Len(extraction.output) = 2
    /\ extraction.output[1].is_ratio
    /\ ~extraction.output[2].is_ratio
    /\ Len(extraction.output[2].formula) = 500
    /\ Len(NodeSql(extraction.input, extraction.output[2].node)) > 500
    /\ extraction.output[1].node \in
          Subtree(extraction.input, extraction.output[2].node)
    /\ \E j \in DOMAIN extraction.input : extraction.input[j].kind = "Avg"

\* Whether two texts are the same but for the case of their letters
SameIgnoringCase(s, t) ==
    Len(s) = Len(t) /\ \A i \in DOMAIN s : LowerChar(s[i]) = LowerChar(t[i])

\* C26: in both classifiers a pattern with a leading * matches a name only if
\* the name ends with the text after the *, a pattern with a trailing *
\* matches only if the name starts with the text before the *, and a pattern
\* without * matches every name that contains it, all without regard to case.
C26_GlobTranslation ==
    matching.classifier # "" =>
        LET pattern == matching.pattern
            name == matching.name
            n == Len(pattern)
        IN  /\ (n > 0 /\ pattern[1] = "*" /\ matching.matched) =>
                  /\ n - 1 <= Len(name)
                  /\ SameIgnoringCase(SubSeq(name, Len(name) - n + 2, Len(name)),
                                      SubSeq(pattern, 2, n))
            /\ (n > 0 /\ pattern[n] = "*" /\ matching.matched) =>
                  /\ n - 1 <= Len(name)
                  /\ SameIgnoringCase(SubSeq(name, 1, n - 1),
                                      SubSeq(pattern, 1, n - 1))
            /\ ((\A i \in 1..n : pattern[i] # "*")
                /\ \E k \in 0..(Len(name) - n) :
                      SameIgnoringCase(SubSeq(name, k + 1, k + n), pattern)) =>
                  matching.matched

\* The physical tables of the catalog
PhysicalTables ==
    {<<selfCatalog[i].database, selfCatalog[i].schema, selfCatalog[i].table_name>> :
        i \in DOMAIN selfCatalog}

\* C29: the built ontology has exactly one entity per physical table
\* (database, schema, table) and no two entities share an @id, also when two
\* schemas hold tables of one name and when the rows of one table carry
\* different row-count estimates.
C29_OneEntityPerTable ==
    doc.built =>
        /\ \A t \in PhysicalTables :
              Cardinality({e \in DOMAIN doc.entities :
                  <<doc.entities[e].database, doc.entities[e].schema,
                    doc.entities[e].label>> = t}) = 1
        /\ Len(doc.entities) = Cardinality(PhysicalTables)
        /\ \A e, f \in DOMAIN doc.entities :
              e # f => doc.entities[e].id # doc.entities[f].id

\* The places <<entity, column>> of the columns of the built entities
BuiltColumns ==
    {at \in (1..MaxCatalogRows) \X (1..MaxCatalogRows) :
        /\ at[1] \in DOMAIN doc.entities
        /\ at[2] \in DOMAIN doc.entities[at[1]].hasColumn}

\* The catalog row a built column was made from
RowOf(at) ==
    LET e == doc.entities[at[1]]
    IN  SelectSeq(selfCatalog, LAMBDA row :
            /\ row.database = e.database /\ row.schema = e.schema
            /\ row.table_name = e.label)[at[2]]

\* The entries a review list holds for a column
EntriesAt(list, at) == {k \in DOMAIN list : list[k].at = at}

JoinsOf(table) ==
    LET joins == globalPatterns.joins
    IN  Cardinality({j \in DOMAIN joins : joins[j].rightTable = table})
        + Cardinality({j \in DOMAIN joins :
              /\ joins[j].leftTable = table
              /\ table # UnknownTable})

\* The tables of the joins, a missing left table apart
JoinedTables ==
    {t \in {globalPatterns.joins[j].rightTable : j \in DOMAIN globalPatterns.joins}
           \cup {globalPatterns.joins[j].leftTable : j \in DOMAIN globalPatterns.joins} :
        t # MissingTable /\ JoinsOf(t) > 0}

\* When a table is first seen: the right table of a join before its left one
FirstSeen(table) ==
    LET joins == globalPatterns.joins
        seen == {2 * j - 1 : j \in {i \in DOMAIN joins : joins[i].rightTable = table}}
                \cup {2 * j : j \in {i \in DOMAIN joins :
                                        joins[i].leftTable = table
                                        /\ table # UnknownTable}}
    IN  CHOOSE s \in seen : \A r \in seen : s <= r

\* C30: mostJoinedTables gives each table the number of joins in which it is
\* the right table plus those in which it is a left table other than
\* "UNKNOWN"; it is ordered by count, highest first, tables of equal count in
\* first-seen order, and holds the first 20 tables of that order at most.
C30_MostJoinedTables ==
    globalPatterns.done =>
        LET list == globalPatterns.mostJoinedTables
            tables == JoinedTables
            joinsOf == [t \in tables |-> JoinsOf(t)]
            firstSeen == [t \in tables |-> FirstSeen(t)]
            RanksAbove(a, b) ==
                \/ joinsOf[a] > joinsOf[b]
                \/ joinsOf[a] = joinsOf[b] /\ firstSeen[a] < firstSeen[b]
        IN  /\ Len(list) <= 20
            /\ Len(list) = Min(20, Cardinality(tables))
            /\ \A p \in DOMAIN list :
                  /\ list[p].table \in tables
                  /\ list[p].count = joinsOf[list[p].table]
            /\ \A p \in 1..(Len(list) - 1) :
                  RanksAbove(list[p].table, list[p + 1].table)
            /\ \A t \in tables :
                  (\A p \in DOMAIN list : list[p].table # t) =>
                      RanksAbove(list[Len(list)].table, t)

\* Twenty-two tables joined once and A joined twice afterwards: A is first,
\* 19 of the others follow in first-seen order, and the rest are cut.
C30_Witness ==
    /\ globalPatterns.done
    /\ Len(globalPatterns.joins) = 13
    /\ Len(globalPatterns.mostJoinedTables) = 20
    /\ globalPatterns.mostJoinedTables[1] = [table |-> <<"A", 0>>, count |-> 2]
    /\ globalPatterns.mostJoinedTables[2].table = <<"t", 2>>
    /\ globalPatterns.mostJoinedTables[3].table = <<"t", 1>>
    /\ \E j \in DOMAIN globalPatterns.joins :
          globalPatterns.joins[j].leftTable = UnknownTable

====
